---- MODULE Spec2Model ----
(***************************************************************************)
(* Roster reconciliation of swimlabs-announcer (src/server.js).            *)
(*                                                                         *)
(* The roster table is a set of row records.  Every request handler that   *)
(* reads or writes the roster is one action; a handler runs to completion  *)
(* on the Node event loop, so its SQL statements are one atomic step.      *)
(* Faults of the file system and of the storage engine are inputs of the   *)
(* handlers that can meet them.                                            *)
(*                                                                         *)
(* Columns that every statement of the program writes together are         *)
(* represented by one of them:                                             *)
(*   instructor_name  stands for instructor_name, program, age_text        *)
(*   balance_amount   stands for balance_amount, substitute_instructor,    *)
(*                    is_substitute, original_instructor                   *)
(*   flags            is the set of the flag_* columns that are 1          *)
(* Dates are day numbers (the program compares ISO dates as strings, which *)
(* is the chronological order); timestamps are readings of a clock that    *)
(* advances with every request.                                            *)
(*                                                                         *)
(* The parsers are modelled on text: a string is the sequence of its       *)
(* characters where the program looks at characters (times), and a line of *)
(* whitespace-normalized text is the sequence of its words.                *)
(***************************************************************************)
EXTENDS Integers, Sequences, FiniteSets, TLC

VARIABLES roster, activeDate, exports, clock, last

\* one run of a pure function of the program, of the PDF text extraction and
\* line parser, and of the HTML parser
VARIABLES timeCall, pdfRun, htmlRun

\* the call of detectFlags and of a manager report parser under way; the
\* manager_report_data table, the last id it gave out, the last answer of its
\* handlers
VARIABLES flagCall, reportCall, reportData, reportSeq, reportLast

\* the calls of the announcing handlers and lastAnnouncement.text
VARIABLES speech

\* ipAuthState, the wall clock (Date.now(), in minutes), app_state.readOnlyMode
VARIABLES ipAuthState, wall, readOnlyMode

vars == <<roster, activeDate, exports, clock, last, timeCall, pdfRun, htmlRun,
          flagCall, reportCall, reportData, reportSeq, reportLast, speech,
          ipAuthState, wall, readOnlyMode>>

\* the roster side and the parser side of the state
rosterVars == <<roster, activeDate, exports, clock, last>>
parserVars == <<timeCall, pdfRun, htmlRun>>
reportVars == <<reportCall, reportData, reportSeq, reportLast>>
deckVars == <<ipAuthState, wall, readOnlyMode>>
serviceVars == <<flagCall, reportVars, speech, deckVars>>

\* ------------------------------------------------------------------ bounds
MaxClock == 3          \* number of requests served in one behaviour
MaxDocLen == 2         \* rows of one uploaded / imported document

\* ------------------------------------------------------------- value sets
NULL == -1             \* SQL NULL / JS null in an integer column
NoText == "NULL"       \* SQL NULL in a text column

Today == 2             \* todayISO(): the calendar day of the server
Dates == {1, 2, 3}     \* yesterday, today, tomorrow
StartTimes == {"09:00"}
Names == {"John Doe"}
Locations == {1, 2}    \* ids of the locations table
DefaultLocation == 1   \* roster.location_id DEFAULT 1

AllFlags == {"flag_new", "flag_makeup", "flag_policy", "flag_owes", "flag_trial"}

\* ------------------------------------------------------------ roster keys
\* PRIMARY KEY(date, start_time, swimmer_name) and uq_roster_key
Key(r) == <<r.date, r.start_time, r.swimmer_name>>

ConflictRowsMut(rs, ex) ==
  {o \in rs : Key(o) = Key(ex) /\ o.location_id = ex.location_id}

\* rows of the table that an INSERT of ex conflicts with
ConflictRows(rs, ex) == {o \in rs : Key(o) = Key(ex)}

\* nowISO()
nowISO == clock + 1

\* activeOrToday(): the persisted active date, else today
activeOrToday == IF activeDate # NULL THEN activeDate ELSE Today

\* setActiveDate(date): ignores anything that is not a date
setActiveDate(cur, d) == IF d \in Dates THEN d ELSE cur

\* ------------------------------------------------------------ small helpers
Range(s) == {s[i] : i \in DOMAIN s}

SeqsUpTo(S, n) == UNION {[1..k -> S] : k \in 0..n}

\* every order in which a SELECT without ORDER BY may return the rows of S
Orders(S) == {s \in [1..Cardinality(S) -> S] : \A i, j \in DOMAIN s : i # j => s[i] # s[j]}

MinOf(S) == CHOOSE x \in S : \A y \in S : x <= y

\* JS truthiness of a nullable timestamp / text value:  v || null
OrNull(v) == IF v = NULL THEN NULL ELSE v

\* JS  r.zone || null : 0 and null both become NULL
ZoneOrNull(z) == IF z = NULL \/ z = 0 THEN NULL ELSE z

\* ---------------------------------------------------- the INSERT statements
\* Each INSERT ... ON CONFLICT statement is two operators: the row it inserts
\* (SQL's "excluded" row) and the row an existing row becomes on conflict.

\* POST /api/upload-html, VALUES (...)
HtmlExcluded(r, locId, now) ==
  [date |-> r.date, start_time |-> r.start_time, swimmer_name |-> r.swimmer_name,
   location_id |-> locId,
   instructor_name |-> r.instructor_name,
   zone |-> ZoneOrNull(r.zone),
   attendance |-> r.attendance, attendance_at |-> NULL,
   attendance_auto_absent |-> IF r.attendance_auto_absent = 1 THEN 1 ELSE 0,
   is_addon |-> 0,
   flags |-> r.flags,
   balance_amount |-> r.balance_amount,
   created_at |-> now, updated_at |-> now,
   zone_overridden |-> 0, zone_override_at |-> NULL, zone_override_by |-> NoText]

\* POST /api/upload-html, ON CONFLICT(date, start_time, swimmer_name) DO UPDATE
HtmlOnConflict(old, ex) ==
  [old EXCEPT !.instructor_name = ex.instructor_name,
              !.balance_amount = ex.balance_amount,
              !.zone = ex.zone,
              !.attendance = ex.attendance,
              !.attendance_at = ex.attendance_at,
              !.attendance_auto_absent = ex.attendance_auto_absent,
              !.is_addon = ex.is_addon,
              !.flags = ex.flags,
              !.location_id = ex.location_id,
              !.updated_at = ex.updated_at]

\* POST /api/import-today, VALUES (...): location_id and the override columns
\* take their column defaults
PdfExcluded(r, date, now) ==
  [date |-> date, start_time |-> r.start_time, swimmer_name |-> r.swimmer_name,
   location_id |-> DefaultLocation,
   instructor_name |-> r.instructor_name,
   zone |-> ZoneOrNull(r.zone),
   attendance |-> NULL, attendance_at |-> NULL, attendance_auto_absent |-> 0,
   is_addon |-> 0,
   flags |-> r.flags,
   balance_amount |-> NULL,
   created_at |-> now, updated_at |-> now,
   zone_overridden |-> 0, zone_override_at |-> NULL, zone_override_by |-> NoText]

PdfOnConflictMut(old, ex) ==
  [old EXCEPT !.instructor_name = ex.instructor_name,
              !.zone = ex.zone,
              !.attendance_auto_absent = ex.attendance_auto_absent,
              !.is_addon = 1,
              !.flags = ex.flags,
              !.updated_at = ex.updated_at]

\* POST /api/import-today, ON CONFLICT(date, start_time, swimmer_name) DO UPDATE
PdfOnConflict(old, ex) ==
  [old EXCEPT !.instructor_name = ex.instructor_name,
              !.zone = ex.zone,
              !.attendance_auto_absent = ex.attendance_auto_absent,
              !.flags = ex.flags,
              !.updated_at = ex.updated_at]

\* importRosterRows, VALUES (...): r is a row of an export file
JsonExcluded(r, date, locId, now) ==
  [date |-> date, start_time |-> r.start_time, swimmer_name |-> r.swimmer_name,
   location_id |-> locId,
   instructor_name |-> r.instructor_name,
   zone |-> r.zone,
   attendance |-> IF r.attendance \in {0, 1} THEN r.attendance ELSE NULL,
   attendance_at |-> OrNull(r.attendance_at),
   attendance_auto_absent |-> IF r.attendance_auto_absent = 1 THEN 1 ELSE 0,
   is_addon |-> IF r.is_addon = 1 THEN 1 ELSE 0,
   flags |-> r.flags,
   balance_amount |-> r.balance_amount,
   created_at |-> IF r.created_at = NULL THEN now ELSE r.created_at,
   updated_at |-> now,
   zone_overridden |-> IF r.zone_overridden = 1 THEN 1 ELSE 0,
   zone_override_at |-> OrNull(r.zone_override_at),
   zone_override_by |-> r.zone_override_by]

\* importRosterRows, ON CONFLICT ... DO UPDATE: every column but created_at
JsonOnConflict(old, ex) == [ex EXCEPT !.created_at = old.created_at]

\* POST /api/add-swimmer, VALUES (...)
AddExcluded(date, st, sn, instr, z, locId, now) ==
  [date |-> date, start_time |-> st, swimmer_name |-> sn,
   location_id |-> locId,
   instructor_name |-> instr,
   zone |-> z,
   attendance |-> NULL, attendance_at |-> NULL, attendance_auto_absent |-> 0,
   is_addon |-> 1,
   flags |-> {},
   balance_amount |-> NULL,
   created_at |-> now, updated_at |-> now,
   zone_overridden |-> 0, zone_override_at |-> NULL, zone_override_by |-> NoText]

\* POST /api/add-swimmer, ON CONFLICT ... DO UPDATE
AddOnConflict(old, ex) ==
  [old EXCEPT !.instructor_name = ex.instructor_name,
              !.zone = ex.zone,
              !.is_addon = 1,
              !.location_id = ex.location_id,
              !.updated_at = ex.updated_at]

OnConflict(stmt, old, ex) ==
  CASE stmt = "html" -> HtmlOnConflict(old, ex)
    [] stmt = "pdf"  -> PdfOnConflict(old, ex)
    [] stmt = "json" -> JsonOnConflict(old, ex)
    [] stmt = "add"  -> AddOnConflict(old, ex)

\* ins.run(...): one INSERT ... ON CONFLICT DO UPDATE
Upsert(stmt, rs, ex) ==
  LET c == ConflictRows(rs, ex)
  IN  IF c = {} THEN rs \cup {ex}
      ELSE (rs \ c) \cup {OnConflict(stmt, o, ex) : o \in c}

\* db.transaction((rows) => { for (const r of rows) ins.run(...) }), committed
RECURSIVE Tx(_, _, _)
Tx(stmt, rs, exs) ==
  IF exs = <<>> THEN rs
  ELSE Tx(stmt, Upsert(stmt, rs, Head(exs)), Tail(exs))

\* ------------------------------------------------------------- documents
\* A parsed HTML roll sheet: the rows parseHTMLRoster returns.  date is NULL
\* for a section without date columns.
HtmlRows ==
  [date : Dates \cup {NULL}, start_time : StartTimes, swimmer_name : Names,
   instructor_name : {"Kim Roe"}, zone : {1},
   attendance : {NULL}, attendance_auto_absent : {0},
   flags : {{"flag_new"}}, balance_amount : {NULL}]
  \cup
  [date : {Today}, start_time : StartTimes, swimmer_name : Names,
   instructor_name : {"Kim Roe"}, zone : {1},
   attendance : {0}, attendance_auto_absent : {1},
   flags : {{"flag_new"}}, balance_amount : {NULL}]
  \cup
  \* a section whose Zone field reads "Zone 5": zone = parseInt(zoneMatch[1])
  [date : {Today}, start_time : StartTimes, swimmer_name : Names,
   instructor_name : {"Kim Roe"}, zone : {5},
   attendance : {NULL}, attendance_auto_absent : {0},
   flags : {{"flag_new"}}, balance_amount : {NULL}]

HtmlDocs == SeqsUpTo(HtmlRows, MaxDocLen)

\* detectedDate: the date in the file name or the text, else todayISO()
DetectedDates == {Today, Today + 1}

\* The rows parseRosterFromLines returns for today's PDF.
PdfRows ==
  [start_time : StartTimes, swimmer_name : Names,
   instructor_name : {"Kim Roe", "Sam Poe"}, zone : {1}, flags : {{}}]

PdfDocs == SeqsUpTo(PdfRows, MaxDocLen)

\* ------------------------------------------------- POST /api/upload-html
\* normalizedRows: a row without a date takes the detected date
HtmlNormalized(doc, detectedDate) ==
  [i \in DOMAIN doc |->
     [doc[i] EXCEPT !.date = IF @ = NULL THEN detectedDate ELSE @]]

\* dateList
HtmlDateList(rows) == {rows[i].date : i \in DOMAIN rows}

\* dateStart
HtmlDateStart(rows) == MinOf(HtmlDateList(rows))

HtmlRowsToInsertMut(rows) == rows

\* rowsToInsert = normalizedRows.filter((row) => row.date >= today)
HtmlRowsToInsert(rows) == SelectSeq(rows, LAMBDA r : r.date >= Today)

\* activeDate = dateList.includes(today) ? today : dateStart
HtmlActiveDate(rows) ==
  IF Today \in HtmlDateList(rows) THEN Today ELSE HtmlDateStart(rows)

\* existingRoster, and the rows of DELETE FROM roster WHERE date >= today
\* AND location_id = ? AND is_addon = 0
HtmlSuperseded(rs, locId) ==
  {r \in rs : r.date >= Today /\ r.location_id = locId /\ r.is_addon = 0}

\* the roster after the DELETE and the committed insert transaction
UploadRoster(rs, rows, locId, now) ==
  LET ins == HtmlRowsToInsert(rows)
  IN  Tx("html", rs \ HtmlSuperseded(rs, locId),
         [i \in DOMAIN ins |-> HtmlExcluded(ins[i], locId, now)])

UploadHtmlMut(locId, doc, detectedDate, fault) ==
  LET rows == HtmlNormalized(doc, detectedDate)
      old  == HtmlSuperseded(roster, locId)
      file == [kind |-> "auto_export", loc |-> locId, date |-> Today,
               at |-> nowISO, roster |-> old]
      rejected == doc = <<>> \/ HtmlRowsToInsert(rows) = <<>>
      status == IF rejected THEN "rejected"
                ELSE IF fault = "export_write" THEN "export_failed"
                ELSE IF fault = "insert" THEN "insert_failed"
                ELSE "ok"
  IN  /\ clock < MaxClock
      /\ fault = "export_write" => old # {}
      /\ rejected => fault = "none"
      /\ activeDate' = IF doc = <<>> THEN activeDate
                       ELSE setActiveDate(activeDate, HtmlActiveDate(rows))
      /\ exports' = IF status \in {"ok", "insert_failed"} /\ old # {}
                    THEN exports \cup {file} ELSE exports
      /\ roster' = CASE status = "ok" -> UploadRoster(roster, rows, locId, nowISO)
                     [] status = "insert_failed" -> roster \ old
                     [] OTHER -> roster
      /\ clock' = IF rejected THEN clock ELSE clock + 1
      /\ last' = [op |-> "upload_html", loc |-> locId,
                  date |-> IF doc = <<>> THEN NULL ELSE HtmlDateStart(rows),
                  status |-> status, doc |-> rows, into_empty |-> roster = {}]

\* fault: "none", "export_write" (fs.writeFileSync of the auto-export throws)
\* or "insert" (a statement of the insert transaction throws)
UploadHtml(locId, doc, detectedDate, fault) ==
  LET rows == HtmlNormalized(doc, detectedDate)
      old  == HtmlSuperseded(roster, locId)
      file == [kind |-> "auto_export", loc |-> locId, date |-> Today,
               at |-> nowISO, roster |-> old]
      rejected == doc = <<>> \/ HtmlRowsToInsert(rows) = <<>>
      status == IF rejected THEN "rejected"
                ELSE IF fault = "export_write" THEN "export_failed"
                ELSE IF fault = "insert" THEN "insert_failed"
                ELSE "ok"
  IN  /\ clock < MaxClock
      /\ fault = "export_write" => old # {}
      /\ rejected => fault = "none"
      /\ activeDate' = IF rejected THEN activeDate
                       ELSE setActiveDate(activeDate, HtmlActiveDate(rows))
      /\ exports' = IF status \in {"ok", "insert_failed"} /\ old # {}
                    THEN exports \cup {file} ELSE exports
      /\ roster' = CASE status = "ok" -> UploadRoster(roster, rows, locId, nowISO)
                     [] status = "insert_failed" -> roster \ old
                     [] OTHER -> roster
      /\ clock' = IF rejected THEN clock ELSE clock + 1
      /\ last' = [op |-> "upload_html", loc |-> locId,
                  date |-> IF doc = <<>> THEN NULL ELSE HtmlDateStart(rows),
                  status |-> status, doc |-> rows, into_empty |-> roster = {}]

\* ------------------------------------------------- POST /api/import-today
\* the roster after the committed upsert transaction
ImportTodayRoster(rs, doc, date, now) ==
  Tx("pdf", rs, [i \in DOMAIN doc |-> PdfExcluded(doc[i], date, now)])

\* pdf: "ok", or "unreadable" (PDF missing, pdftotext error or non-zero exit)
ImportToday(pdf, doc, fault) ==
  LET status == IF pdf # "ok" THEN "rejected"
                ELSE IF fault = "insert" THEN "insert_failed"
                ELSE "ok"
  IN  /\ clock < MaxClock
      /\ pdf # "ok" => doc = <<>> /\ fault = "none"
      /\ fault = "insert" => doc # <<>>
      /\ roster' = IF status = "ok"
                   THEN ImportTodayRoster(roster, doc, activeOrToday, nowISO)
                   ELSE roster
      /\ clock' = IF status = "rejected" THEN clock ELSE clock + 1
      /\ last' = [op |-> "import_today", loc |-> DefaultLocation,
                  date |-> activeOrToday, status |-> status, doc |-> doc,
                  into_empty |-> roster = {}]
      /\ UNCHANGED <<activeDate, exports>>

\* ------------------------------------------------------ importRosterRows
\* DELETE FROM roster WHERE date = ? AND location_id = ? AND is_addon = 0
ImportDeleted(rs, date, locId) ==
  {r \in rs : r.date = date /\ r.location_id = locId /\ r.is_addon = 0}

\* rows the loop does not skip:  if (!st || !sn) continue
ImportKept(rows) ==
  SelectSeq(rows, LAMBDA r : r.start_time # "" /\ r.swimmer_name # "")

\* the roster after the DELETE and the committed insert transaction
ImportRosterRows(rs, date, locId, rows, now) ==
  LET kept == ImportKept(rows)
  IN  Tx("json", rs \ ImportDeleted(rs, date, locId),
         [i \in DOMAIN kept |-> JsonExcluded(kept[i], date, locId, now)])

\* ------------------------------------------------ POST /api/import-server
\* importDate: payload.date when it is a date, else the active date
ImportDate(file) == IF file.date \in Dates THEN file.date ELSE activeOrToday

\* file: an export file in the directory of location locId; rows: its
\* "roster" array, in the order the SELECT that wrote it returned the rows
ImportServer(locId, file, rows, fault) ==
  LET date == ImportDate(file)
      status == IF fault = "insert" THEN "insert_failed" ELSE "ok"
  IN  /\ clock < MaxClock
      /\ file.loc = locId
      /\ rows # <<>>
      /\ activeDate' = setActiveDate(activeDate, date)
      /\ roster' = IF status = "ok"
                   THEN ImportRosterRows(roster, date, locId, rows, nowISO)
                   ELSE roster \ ImportDeleted(roster, date, locId)
      /\ clock' = clock + 1
      /\ last' = [op |-> "import_server", loc |-> locId, date |-> date,
                  status |-> status, doc |-> rows, into_empty |-> roster = {}]
      /\ UNCHANGED exports

\* ---------------------------------------------------- manual operations
\* the row an UPDATE ... WHERE date = ? AND start_time = ? AND swimmer_name = ?
\* addresses
Addressed(rs, st, sn) ==
  {r \in rs : r.date = activeOrToday /\ r.start_time = st /\ r.swimmer_name = sn}

\* what the handler writes to the audit log: the request and its outcome
Manual(op, st, sn, status) ==
  [op |-> op, loc |-> DefaultLocation, date |-> activeOrToday, status |-> status,
   doc |-> <<[start_time |-> st, swimmer_name |-> sn]>>, into_empty |-> roster = {}]

\* POST /api/attendance: 1 = here, 0 = absent, null = clear
Attendance(st, sn, att) ==
  /\ clock < MaxClock
  /\ roster' = (roster \ Addressed(roster, st, sn)) \cup
       {[r EXCEPT !.attendance = att,
                  !.attendance_at = IF att = NULL THEN NULL ELSE nowISO,
                  !.updated_at = nowISO] : r \in Addressed(roster, st, sn)}
  /\ clock' = clock + 1
  /\ last' = Manual("attendance", st, sn, "ok")
  /\ UNCHANGED <<activeDate, exports>>

\* POST /api/update-zone from a device that is not in deck mode; a zone
\* outside 1..4 ends in the handler's catch block
UpdateZone(st, sn, new_zone, ip) ==
  LET valid == new_zone \in {1, 2, 3, 4}
  IN  /\ clock < MaxClock
      /\ roster' = IF ~valid THEN roster
                   ELSE (roster \ Addressed(roster, st, sn)) \cup
                     {[r EXCEPT !.zone = new_zone,
                                !.zone_overridden = 1,
                                !.zone_override_at = nowISO,
                                !.zone_override_by = ip,
                                !.updated_at = nowISO] : r \in Addressed(roster, st, sn)}
      /\ clock' = IF valid THEN clock + 1 ELSE clock
      /\ last' = Manual("update_zone", st, sn, IF valid THEN "ok" ELSE "rejected")
      /\ UNCHANGED <<activeDate, exports>>

\* POST /api/update-flags
UpdateFlags(st, sn, flags) ==
  /\ clock < MaxClock
  /\ roster' = (roster \ Addressed(roster, st, sn)) \cup
       {[r EXCEPT !.flags = flags, !.updated_at = nowISO] :
          r \in Addressed(roster, st, sn)}
  /\ clock' = clock + 1
  /\ last' = Manual("update_flags", st, sn, "ok")
  /\ UNCHANGED <<activeDate, exports>>

\* POST /api/add-swimmer
AddSwimmer(st, sn, instr, zone, locId) ==
  LET valid == zone = NULL \/ zone \in {1, 2, 3, 4}
  IN  /\ clock < MaxClock
      /\ roster' = IF ~valid THEN roster
                   ELSE Upsert("add", roster,
                          AddExcluded(activeOrToday, st, sn, instr, zone, locId, nowISO))
      /\ clock' = IF valid THEN clock + 1 ELSE clock
      /\ last' = [Manual("add_swimmer", st, sn, IF valid THEN "ok" ELSE "rejected")
                    EXCEPT !.loc = locId]
      /\ UNCHANGED <<activeDate, exports>>

\* POST /api/remove-addon
RemoveAddon(st, sn) ==
  LET info == Addressed(roster, st, sn)
      ok == info # {} /\ \A r \in info : r.is_addon = 1
  IN  /\ clock < MaxClock
      /\ roster' = IF ok THEN roster \ info ELSE roster
      /\ clock' = IF ok THEN clock + 1 ELSE clock
      /\ last' = Manual("remove_addon", st, sn, IF ok THEN "ok" ELSE "rejected")
      /\ UNCHANGED <<activeDate, exports>>

\* POST /api/set-active-date
SetActiveDate(d) ==
  /\ clock < MaxClock
  /\ activeDate' = setActiveDate(activeDate, d)
  /\ clock' = clock + 1
  /\ last' = [op |-> "set_active_date", loc |-> DefaultLocation, date |-> d,
              status |-> "ok", doc |-> <<>>, into_empty |-> roster = {}]
  /\ UNCHANGED <<roster, exports>>

\* ------------------------------------------------------- admin clear
\* The three clear handlers: select the rows, write the backup when there are
\* any, delete.  gone: the rows selected; fault "export_write": writeFileSync
\* throws.
Clear(op, kind, locId, fileLoc, fileDate, gone, fault) ==
  LET failed == fault = "export_write"
      file == [kind |-> kind, loc |-> fileLoc, date |-> fileDate,
               at |-> nowISO, roster |-> gone]
  IN  /\ clock < MaxClock
      /\ failed => gone # {}
      /\ exports' = IF gone # {} /\ ~failed THEN exports \cup {file} ELSE exports
      /\ roster' = IF failed THEN roster ELSE roster \ gone
      /\ clock' = clock + 1
      /\ last' = [op |-> op, loc |-> locId, date |-> fileDate,
                  status |-> IF failed THEN "export_failed" ELSE "ok",
                  doc |-> <<>>, into_empty |-> roster = {}]
      /\ UNCHANGED activeDate

\* POST /api/clear-roster: WHERE date = ? AND location_id = ?
ClearRoster(locId, fault) ==
  Clear("clear_roster", "cleared", locId, locId, activeOrToday,
        {r \in roster : r.date = activeOrToday /\ r.location_id = locId}, fault)

\* POST /api/clear-roster-future: WHERE date >= today AND location_id = ?;
\* the backup carries date_start, no date
ClearRosterFuture(locId, fault) ==
  Clear("clear_roster_future", "cleared_future", locId, locId, NULL,
        {r \in roster : r.date >= Today /\ r.location_id = locId}, fault)

\* the "ALL" export directory, which belongs to no location
AllDir == 0

\* POST /api/clear-roster-all: every row, or WHERE date BETWEEN ? AND ?
ClearRosterAll(hasRange, startDate, endDate, fault) ==
  Clear("clear_roster_all", "cleared_all", AllDir, AllDir, activeOrToday,
        IF hasRange
        THEN {r \in roster : startDate <= r.date /\ r.date <= endDate}
        ELSE roster,
        fault)

\* ------------------------------------------------------------ characters
\* A string the program inspects character by character is the sequence of
\* its characters.
Digit == <<"0", "1", "2", "3", "4", "5", "6", "7", "8", "9">>

\* \d
IsDigit(c) == \E i \in 1..10 : Digit[i] = c

DigitVal(c) == (CHOOSE i \in 1..10 : Digit[i] = c) - 1

\* String(n), n >= 0
RECURSIVE NumStr(_)
NumStr(n) ==
  IF n < 10 THEN <<Digit[n + 1]>>
  ELSE Append(NumStr(n \div 10), Digit[(n % 10) + 1])

\* parseInt(s, 10) of a string of digits
RECURSIVE parseInt(_)
parseInt(s) ==
  IF s = <<>> THEN 0
  ELSE 10 * parseInt(SubSeq(s, 1, Len(s) - 1)) + DigitVal(s[Len(s)])

\* s.padStart(2, "0")
padStart2(s) ==
  IF Len(s) >= 2 THEN s ELSE IF Len(s) = 1 THEN <<"0">> \o s ELSE <<"0", "0">>

\* s.toLowerCase(), on the letters of the alphabet used here
toLowerCase(s) ==
  [i \in DOMAIN s |->
     CASE s[i] = "A" -> "a" [] s[i] = "P" -> "p" [] s[i] = "M" -> "m"
       [] OTHER -> s[i]]

RECURSIVE trimStart(_)
trimStart(s) == IF s # <<>> /\ s[1] = " " THEN trimStart(Tail(s)) ELSE s

RECURSIVE trimEnd(_)
trimEnd(s) ==
  IF s # <<>> /\ s[Len(s)] = " " THEN trimEnd(SubSeq(s, 1, Len(s) - 1)) ELSE s

\* s.trim()
trim(s) == trimEnd(trimStart(s))

\* ------------------------------------------------- normalizeTimeTo24h
\* a JS value that is a string, null, or (as a result) a thrown TypeError
Str(chars) == [type |-> "string", chars |-> chars]
JsNull == [type |-> "null", chars |-> <<>>]
Thrown == [type |-> "throw", chars |-> <<>>]

NoMatch == [ok |-> FALSE, hh |-> <<>>, mm |-> <<>>, ap |-> <<>>]

\* \s*(am|pm)$
TimeSuffix(r) ==
  LET x == trimStart(r)
  IN  IF x = <<"a", "m">> \/ x = <<"p", "m">> THEN x ELSE <<>>

\* (?::(\d{2}))?\s*(am|pm)$  after an hour hh
TimeRest(hh, r) ==
  LET withMinutes == /\ Len(r) >= 3 /\ r[1] = ":" /\ IsDigit(r[2]) /\ IsDigit(r[3])
                     /\ TimeSuffix(SubSeq(r, 4, Len(r))) # <<>>
  IN  IF withMinutes
      THEN [ok |-> TRUE, hh |-> hh, mm |-> SubSeq(r, 2, 3),
            ap |-> TimeSuffix(SubSeq(r, 4, Len(r)))]
      ELSE IF TimeSuffix(r) # <<>>
      THEN [ok |-> TRUE, hh |-> hh, mm |-> <<>>, ap |-> TimeSuffix(r)]
      ELSE NoMatch

\* t.match(/^(\d{1,2})(?::(\d{2}))?\s*(am|pm)$/): two hour digits are tried
\* before one
TimeMatch(t) ==
  LET two == IF Len(t) >= 2 /\ IsDigit(t[1]) /\ IsDigit(t[2])
             THEN TimeRest(SubSeq(t, 1, 2), SubSeq(t, 3, Len(t))) ELSE NoMatch
      one == IF Len(t) >= 1 /\ IsDigit(t[1])
             THEN TimeRest(SubSeq(t, 1, 1), SubSeq(t, 2, Len(t))) ELSE NoMatch
  IN  IF two.ok THEN two ELSE one

normalizeTimeTo24h(raw) ==
  IF raw.type # "string" THEN Thrown
  ELSE LET m == TimeMatch(toLowerCase(trim(raw.chars)))
           h0 == parseInt(m.hh)
           mm == IF m.mm # <<>> THEN parseInt(m.mm) ELSE 0
           hh == IF m.ap = <<"p", "m">> /\ h0 # 12 THEN h0 + 12
                 ELSE IF m.ap = <<"a", "m">> /\ h0 = 12 THEN 0
                 ELSE h0
       IN  IF ~m.ok THEN JsNull
           ELSE Str(padStart2(NumStr(hh)) \o <<":">> \o padStart2(NumStr(mm)))

\* the arguments normalizeTimeTo24h is run on: hour digits, minutes, a gap
\* and a suffix, with or without a leading blank, and null
TimeHours == {<<>>, <<"0">>, <<"9">>, <<"1", "2">>, <<"1", "3">>, <<"9", "9">>,
              <<"1", "2", "3">>}
TimeMinutes == {<<>>, <<":", "0", "0">>, <<":", "5", "9">>, <<":", "6", "0">>,
                <<":", "5">>}
TimeSuffixes == {<<>>, <<"a", "m">>, <<"p", "m">>, <<"P", "M">>, <<"x", "m">>}
Blanks == {<<>>, <<" ">>}

TimeInputs ==
  {JsNull} \cup
  {Str(lead \o h \o m \o gap \o ap) :
     lead \in Blanks, h \in TimeHours, m \in TimeMinutes, gap \in Blanks,
     ap \in TimeSuffixes}

TimeIdle == [pc |-> "idle", raw |-> JsNull, result |-> JsNull]

\* the call normalizeTimeTo24h(raw) returns or throws
NormalizeTime ==
  /\ timeCall.pc = "called"
  /\ timeCall' = [timeCall EXCEPT !.pc = "returned",
                                  !.result = normalizeTimeTo24h(timeCall.raw)]
  /\ UNCHANGED <<rosterVars, serviceVars, pdfRun, htmlRun>>

\* ------------------------------------------------------------------ words
\* A line of normalizeWhitespaceLines is the sequence of its words.  What a
\* regular expression of the program sees in a word is given by the class of
\* the word.  A name is a sequence of words; the empty sequence stands for
\* null and for "", which the program does not tell apart (both are falsy).

\* words that end with a comma, and the word without it
CommaWords == {"Doe,", "Roe,", "Smith,", "Poe,"}
Uncomma(w) ==
  CASE w = "Doe," -> "Doe" [] w = "Roe," -> "Roe" [] w = "Smith," -> "Smith"
    [] w = "Poe," -> "Poe" [] OTHER -> w

\* /^\d+$/
Numerals == {"1", "2", "3", "4", "5"}

\* words of the form  \d+(y|m)  and what cleanAgeText makes of them
AgeWords == {"5y", "5Y"}

\* \w+ after "Schedule:"
DayWords == {"Mon", "Tue"}

\* words that hold a time, and their characters
TimeWords == {"9:00am", "10am", "13pm"}
Spell(w) ==
  CASE w = "9:00am" -> <<"9", ":", "0", "0", "a", "m">>
    [] w = "10am" -> <<"1", "0", "a", "m">>
    [] w = "13pm" -> <<"1", "3", "p", "m">>
    [] OTHER -> <<>>

\* the substitute marks of a name
StarWords == {"*"}
SubWords == {"(sub)"}

\* index of the first word of s at or after position from that satisfies
\* the test, 0 when there is none
FirstAt(s, from, Test(_)) ==
  IF \E k \in from..Len(s) : Test(s[k])
  THEN CHOOSE k \in from..Len(s) : Test(s[k]) /\ \A j \in from..(k - 1) : ~Test(s[j])
  ELSE 0

\* lastFirstToFirstLast: "Last, First" becomes "First Last"
lastFirstToFirstLast(s) ==
  LET k == FirstAt(s, 1, LAMBDA w : w \in CommaWords)
  IN  IF k = 0 THEN s
      ELSE SubSeq(s, k + 1, Len(s)) \o SubSeq(s, 1, k - 1) \o <<Uncomma(s[k])>>

\* removal of the star marks of a name
StripStars(s) == SelectSeq(s, LAMBDA w : w \notin StarWords)

\* s.replace(/\(sub\)/ig, "")
StripSub(s) == SelectSeq(s, LAMBDA w : w \notin SubWords)

\* cleanAgeText
cleanAgeText(s) ==
  IF s # <<>> /\ s[1] \in AgeWords THEN <<"5y">> ELSE s

\* detectFlags(contextText), on the upper-cased words of the context
detectFlags(ctx) ==
  LET has(S) == \E k \in DOMAIN ctx : ctx[k] \in S
  IN  (IF has({"NEW", "FD", "FIRST"}) THEN {"flag_new"} ELSE {}) \cup
      (IF has({"MAKEUP", "MKUP", "MU", "M/U", "MUA"}) THEN {"flag_makeup"} ELSE {}) \cup
      (IF has({"WAIVER", "POLICY", "MP"}) THEN {"flag_policy"} ELSE {}) \cup
      (IF has({"OWES", "OWE", "UNPAID", "BALANCE", "DUE", "$"}) THEN {"flag_owes"} ELSE {}) \cup
      (IF has({"TRIAL", "TR"}) THEN {"flag_trial"} ELSE {})

\* normalizeProgramNonGroup
normalizeProgramNonGroup(p) ==
  IF p = <<>> THEN <<>>
  ELSE CASE p[1] = "PRIVATE" -> <<"Private">>
         [] p[1] = "SEMI-PRIVATE" -> <<"Semi-Private">>
         [] p[1] = "ADULT" -> <<"Adult">>
         [] OTHER -> p

\* -------------------------------------------------- parseRosterFromLines
\* the words between the first word a and the first word b at least two
\* places after it:  a\s+(.*?)\s+b
Between(line, a, b) ==
  LET ia == FirstAt(line, 1, LAMBDA w : w = a)
      ib == IF ia = 0 THEN 0 ELSE FirstAt(line, ia + 2, LAMBDA w : w = b)
  IN  IF ib = 0 THEN <<>> ELSE SubSeq(line, ia + 1, ib - 1)

\* line.startsWith("Schedule:")
IsSchedule(line) == line # <<>> /\ line[1] = "Schedule:"

\* timeMatch and currentStartTime
ScheduleTime(line) ==
  IF /\ Len(line) >= 3 /\ line[2] \in DayWords /\ line[3] \in TimeWords
     /\ TimeMatch(toLowerCase(Spell(line[3]))).ok
  THEN normalizeTimeTo24h(Str(Spell(line[3])))
  ELSE JsNull

\* instMatch and currentInstructor
ScheduleInstructor(line) ==
  lastFirstToFirstLast(Between(line, "Instructors:", "Program:"))

\* zoneMatch and currentZone: Zone:\s+Zone\s+([1-4])
ScheduleZone(line) ==
  LET k == FirstAt(line, 1, LAMBDA w : w = "Zone:")
  IN  IF /\ k # 0 /\ k + 2 <= Len(line) /\ line[k + 1] = "Zone"
         /\ line[k + 2] \in {"1", "2", "3", "4"}
      THEN parseInt(<<line[k + 2]>>)
      ELSE NULL

\* a "GROUP: <level> on <day>: <from> - <to> with ..." line
IsGroupHeader(line) ==
  /\ Len(line) >= 4 /\ line[1] = "GROUP:"
  /\ \E k \in 3..Len(line) : line[k] = "on"
  /\ \E k \in 4..Len(line) : line[k] = "with"

\* currentProgram: for GROUP the level of the nearest group header among the
\* 16 lines before the Schedule line
ScheduleProgram(lines, i) ==
  LET raw == Between(lines[i], "Program:", "Zone:")
      backs == {b \in 1..16 : (i - b) \in DOMAIN lines /\ IsGroupHeader(lines[i - b])}
      near == lines[i - MinOf(backs)]
  IN  IF raw = <<"GROUP">>
      THEN IF backs = {} THEN <<"GROUP">>
           ELSE <<"GROUP:">> \o
                SubSeq(near, 2, FirstAt(near, 3, LAMBDA w : w = "on") - 1)
      ELSE normalizeProgramNonGroup(raw)

isHeaderOrNoise(s) ==
  \/ s = <<>>
  \/ Len(s) >= 2 /\ s[1] = "Student" /\ s[2] = "Medical"
  \/ s[1] \in {"CLA-1"}
  \/ /\ \E k \in 1..(Len(s) - 1) : s[k] = "Page"
     /\ \E k \in 2..(Len(s) - 1) : s[k] = "of"

\* /^\d+$/.test(line)
IsNumberLine(s) == Len(s) = 1 /\ s[1] \in Numerals

\* /^\d+\s+(.+)$/
IsNumberedLine(s) == Len(s) >= 2 /\ s[1] \in Numerals

isAgeLine(s) ==
  /\ s # <<>>
  /\ \/ s[1] \in AgeWords
     \/ Len(s) >= 2 /\ s[1] \in Numerals /\ s[2] \in {"y", "m", "Y", "M"}
     \/ \E k \in DOMAIN s : s[k] \in {"Allergies:", "allergy"}

\* the class header lines inside a class
IsClassHeader(s) ==
  s # <<>> /\ s[1] \in {"GROUP:", "PRIVATE:", "SEMI-PRIVATE:", "ADULT:",
                        "PARENTTOT:", "TODDLER"}

\* lines[k] || ""
LineAt(lines, k) == IF k \in DOMAIN lines THEN lines[k] ELSE <<>>

SwimmerAtMut(lines, i) ==
  LET line == lines[i]
      next == LineAt(lines, i + 1)
  IN  IF line[Len(line)] \in CommaWords /\ IsNumberedLine(next)
      THEN [name |-> line \o Tail(next), i |-> i]
      ELSE IF IsNumberLine(next) THEN [name |-> line, i |-> i + 1]
      ELSE IF IsNumberedLine(line) THEN [name |-> Tail(line), i |-> i]
      ELSE [name |-> <<>>, i |-> i]

\* swimmer-line recognition: the three line-wrap shapes, tried in order;
\* name is the raw swimmerName, i the index after the lines consumed
SwimmerAt(lines, i) ==
  LET line == lines[i]
      next == LineAt(lines, i + 1)
  IN  IF line[Len(line)] \in CommaWords /\ IsNumberedLine(next)
      THEN [name |-> line \o Tail(next), i |-> i + 1]
      ELSE IF IsNumberLine(next) THEN [name |-> line, i |-> i + 1]
      ELSE IF IsNumberedLine(line) THEN [name |-> Tail(line), i |-> i]
      ELSE [name |-> <<>>, i |-> i]

\* the row pushed for the swimmer found at line i
PdfRow(p, sw) ==
  LET nextLine == LineAt(p.lines, sw.i + 1)
      ctx == p.lines[p.i] \o LineAt(p.lines, sw.i + 1) \o LineAt(p.lines, sw.i + 2)
             \o LineAt(p.lines, sw.i - 1) \o LineAt(p.lines, sw.i - 2)
  IN  [start_time |-> p.currentStartTime,
       swimmer_name |-> lastFirstToFirstLast(StripStars(sw.name)),
       instructor_name |-> p.currentInstructor,
       zone |-> p.currentZone,
       program |-> p.currentProgram,
       age_text |-> IF isAgeLine(nextLine) THEN cleanAgeText(nextLine) ELSE <<>>,
       flags |-> detectFlags(ctx)]

InContextMut(p) == p.currentStartTime.type = "string" /\ p.currentInstructor # <<>>

\* the guard of the class context
InContext(p) ==
  /\ p.currentStartTime.type = "string"
  /\ p.currentInstructor # <<>>
  /\ p.currentZone # NULL /\ p.currentZone # 0

\* one iteration of the for loop, on line lines[i]
ParseStep(p) ==
  LET line == p.lines[p.i]
      sw == SwimmerAt(p.lines, p.i)
  IN  IF IsSchedule(line)
      THEN [p EXCEPT !.currentStartTime = ScheduleTime(line),
                     !.currentInstructor = ScheduleInstructor(line),
                     !.currentZone = ScheduleZone(line),
                     !.currentProgram = ScheduleProgram(p.lines, p.i),
                     !.i = p.i + 1]
      ELSE IF \/ ~InContext(p) \/ isHeaderOrNoise(line) \/ IsNumberLine(line)
              \/ isAgeLine(line) \/ IsClassHeader(line)
      THEN [p EXCEPT !.i = p.i + 1]
      ELSE IF sw.name = <<>> THEN [p EXCEPT !.i = p.i + 1]
      ELSE [p EXCEPT !.rows = Append(p.rows, PdfRow(p, sw)), !.i = sw.i + 1]

\* ------------------------------------------- getTodayPdfText, pdftotext
PdfNotFound == [status |-> 400, error |-> "PDF not found"]
PdfUnreadable == [status |-> 400, error |-> "Failed to read PDF via pdftotext"]
Imported == [status |-> 200, error |-> "none"]
NoResponse == [status |-> 0, error |-> "none"]

PdfIdle ==
  [pc |-> "idle", file |-> "missing", proc |-> "exit_zero", lines |-> <<>>, i |-> 1,
   currentStartTime |-> JsNull, currentInstructor |-> <<>>, currentZone |-> NULL,
   currentProgram |-> <<>>, rows |-> <<>>, response |-> NoResponse]

\* getTodayPdfText: the file is missing, or pdftotext is spawned
GetTodayPdfText ==
  /\ pdfRun.pc = "request"
  /\ pdfRun' = IF pdfRun.file = "missing"
            THEN [pdfRun EXCEPT !.pc = "answered", !.response = PdfNotFound]
            ELSE [pdfRun EXCEPT !.pc = "awaiting"]
  /\ UNCHANGED <<rosterVars, serviceVars, timeCall, htmlRun>>

\* proc.on("error"): the process could not be spawned
ProcError ==
  /\ pdfRun.pc = "awaiting" /\ pdfRun.proc = "spawn_error"
  /\ pdfRun' = [pdfRun EXCEPT !.pc = "answered", !.response = PdfUnreadable]
  /\ UNCHANGED <<rosterVars, serviceVars, timeCall, htmlRun>>

\* proc.on("close", code)
ProcClose ==
  /\ pdfRun.pc = "awaiting" /\ pdfRun.proc \in {"exit_zero", "exit_nonzero"}
  /\ pdfRun' = IF pdfRun.proc = "exit_zero"
            THEN [pdfRun EXCEPT !.pc = "parsing", !.i = 1]
            ELSE [pdfRun EXCEPT !.pc = "answered", !.response = PdfUnreadable]
  /\ UNCHANGED <<rosterVars, serviceVars, timeCall, htmlRun>>

\* one line of parseRosterFromLines
ParseLine ==
  /\ pdfRun.pc = "parsing" /\ pdfRun.i <= Len(pdfRun.lines)
  /\ pdfRun' = ParseStep(pdfRun)
  /\ UNCHANGED <<rosterVars, serviceVars, timeCall, htmlRun>>

\* the parsed rows are imported and the request is answered
AnswerImported ==
  /\ pdfRun.pc = "parsing" /\ pdfRun.i > Len(pdfRun.lines)
  /\ pdfRun' = [pdfRun EXCEPT !.pc = "answered", !.response = Imported]
  /\ UNCHANGED <<rosterVars, serviceVars, timeCall, htmlRun>>

\* ------------------------------------------------------- PDF text inputs
MaxLines == 4          \* lines of a PDF text drawn line by line
MaxEntries == 2        \* swimmer entries of a PDF text built from entries
ShortLines == 2        \* lines of a PDF text in the runs of pdftotext

\* a "Schedule:" line
SchedLine(time, inst, prog, zone) ==
  <<"Schedule:", "Mon">> \o time \o <<"Instructors:">> \o inst
    \o <<"Program:">> \o prog \o <<"Zone:", "Zone">> \o zone

SchedA == SchedLine(<<"9:00am">>, <<"Smith,", "Jane">>, <<"GROUP">>, <<"2">>)
SchedB == SchedLine(<<"9:00am">>, <<"Roe,", "Kim">>, <<"PRIVATE">>, <<"3">>)
SchedNoTime == SchedLine(<<>>, <<"Roe,", "Kim">>, <<"PRIVATE">>, <<"3">>)
SchedNoInstructor == SchedLine(<<"10am">>, <<>>, <<"PRIVATE">>, <<"3">>)
SchedNoZone == SchedLine(<<"10am">>, <<"Roe,", "Kim">>, <<"PRIVATE">>, <<"5">>)

\* the lines a PDF text is drawn from
PdfLines ==
  {SchedA, SchedB, SchedNoTime, SchedNoInstructor, SchedNoZone,
   <<"Doe,">>, <<"1", "John">>, <<"Doe,", "John">>, <<"1">>,
   <<"1", "Doe,", "John">>, <<"5y">>, <<"Page", "1", "of", "2">>,
   <<"GROUP:", "Beginner", "1", "on", "Mon:", "9:00", "-", "9:30", "with",
     "Smith,", "Jane">>}

\* a swimmer entry: its line-wrap shape, the swimmer, and the age line that
\* follows it, if any
Swimmers == {[last |-> "Doe,", first |-> "John", name |-> <<"John", "Doe">>],
             [last |-> "Poe,", first |-> "Amy", name |-> <<"Amy", "Poe">>]}
Entries == [shape : {"a", "b", "c"}, who : Swimmers, age : {"", "5y", "5Y"}]

\* the lines of an entry
EntryLines(e) ==
  (CASE e.shape = "a" -> <<<<e.who.last>>, <<"1", e.who.first>>>>
     [] e.shape = "b" -> <<<<e.who.last, e.who.first>>, <<"1">>>>
     [] e.shape = "c" -> <<<<"1", e.who.last, e.who.first>>>>)
  \o (IF e.age = "" THEN <<>> ELSE <<<<e.age>>>>)

RECURSIVE Flatten(_)
Flatten(ss) == IF ss = <<>> THEN <<>> ELSE Head(ss) \o Flatten(Tail(ss))

\* a class: its Schedule line and its entries, with the lines they make
Classes ==
  {[sched |-> s, entries |-> es,
    lines |-> <<s>> \o Flatten([k \in DOMAIN es |-> EntryLines(es[k])])] :
     s \in {SchedA, SchedB}, es \in SeqsUpTo(Entries, MaxEntries)}

PdfTexts(n) == SeqsUpTo(PdfLines, n) \cup {c.lines : c \in Classes}

\* the requests: the file is missing, or pdftotext behaves in one of four
\* ways and, when it exits with 0, has written a text
PdfRequests(texts) ==
  {[PdfIdle EXCEPT !.pc = "request"]}
  \cup {[PdfIdle EXCEPT !.pc = "request", !.file = "present", !.proc = b] :
          b \in {"spawn_error", "exit_nonzero", "hangs"}}
  \cup {[PdfIdle EXCEPT !.pc = "request", !.file = "present", !.lines = t] :
          t \in texts}

\* ------------------------------------------------------ parseHTMLRoster
\* A class section of the HTML roll sheet is what the selectors of the parser
\* find in it:
\*   time      the time word of the cell after "Schedule:", "" when none
\*   header    the words after "with" in .full-width-header
\*   cell      the cell after "Instructor(s):": its <li> items, or its text
\*   zone      the words of the cell after "Zone:"
\*   program   the words of the cell after "Program:"
\*   range     the date range of the section text
\*   columns   the header cells of table.table-roll-sheet
\*   swimmers  the body rows that hold a .student-name
\* A date is <<year, month, day>>; <<>> is no date.
NoDate == <<>>

\* parseDateRangeFromSectionText found no range
NoRange == [startYear |-> 0, endYear |-> 0, startMonth |-> 0, startDay |-> 0]

\* new Date().getFullYear() in the runs of the parser
WallYears == {2025, 2026}

\* inferYearFromRange; thisYear is new Date().getFullYear()
inferYearFromRange(month, day, range, thisYear) ==
  IF range.startYear = 0 \/ range.endYear = 0 THEN thisYear
  ELSE IF range.startYear = range.endYear THEN range.startYear
  ELSE IF month > range.startMonth \/ (month = range.startMonth /\ day >= range.startDay)
  THEN range.startYear
  ELSE range.endYear

\* extractDateTimeFromHeader on a header cell that holds a date
extractDateTimeFromHeader(cell, range, fallbackTime, thisYear) ==
  LET year == IF cell.year # 0 THEN cell.year
              ELSE inferYearFromRange(cell.month, cell.day, range, thisYear)
      t == IF cell.time \in TimeWords
           THEN normalizeTimeTo24h(Str(Spell(cell.time))) ELSE JsNull
  IN  [dateISO |-> <<year, cell.month, cell.day>>,
       startTime |-> IF t.type = "string" THEN t ELSE fallbackTime]

\* parseRosterDateColumns: the date columns of the header row, with their
\* column index
parseRosterDateColumns(cells, range, fallbackTime, thisYear) ==
  LET idx == SelectSeq([k \in DOMAIN cells |-> k], LAMBDA k : cells[k].kind = "date")
  IN  [n \in DOMAIN idx |->
         LET info == extractDateTimeFromHeader(cells[idx[n]], range, fallbackTime, thisYear)
         IN  [index |-> idx[n], date |-> info.dateISO, start_time |-> info.startTime]]

\* /\*/.test(t) || /\(sub\)/i.test(t)
HasMark(t) == \E k \in DOMAIN t : t[k] \in StarWords \cup SubWords

\* t.includes('*')
HasStar(t) == \E k \in DOMAIN t : t[k] \in StarWords

NoInstructors == [instructorName |-> <<>>, substituteInstructor |-> <<>>]

\* instructorName and substituteInstructor after the section header
FromHeader(header) ==
  LET cleaned == StripStars(StripSub(header))
  IN  IF cleaned = <<>> THEN NoInstructors
      ELSE IF HasMark(header)
      THEN [NoInstructors EXCEPT !.substituteInstructor = lastFirstToFirstLast(cleaned)]
      ELSE [NoInstructors EXCEPT !.instructorName = lastFirstToFirstLast(cleaned)]

\* instructorItems.each(...)
RECURSIVE FromItems(_, _)
FromItems(acc, items) ==
  IF items = <<>> THEN acc
  ELSE LET text == Head(items)
           now == IF text = <<>> THEN acc
                  ELSE IF HasStar(text)
                  THEN [acc EXCEPT !.substituteInstructor =
                                      lastFirstToFirstLast(StripStars(text))]
                  ELSE IF acc.instructorName = <<>>
                  THEN [acc EXCEPT !.instructorName = lastFirstToFirstLast(text)]
                  ELSE acc
       IN  FromItems(now, Tail(items))

\* the instructor list as <li> items: a substitute alone becomes the
\* instructor
FromList(acc, items) ==
  LET a == FromItems(acc, items)
  IN  IF a.instructorName = <<>> /\ a.substituteInstructor # <<>>
      THEN [instructorName |-> a.substituteInstructor, substituteInstructor |-> <<>>]
      ELSE a

\* the instructor cell as plain text
FromText(acc, raw) ==
  LET cleaned == StripStars(StripSub(raw))
  IN  IF cleaned = <<>> THEN acc
      ELSE IF HasMark(raw)
      THEN [acc EXCEPT !.substituteInstructor = lastFirstToFirstLast(cleaned)]
      ELSE IF acc.instructorName = <<>>
      THEN [acc EXCEPT !.instructorName = lastFirstToFirstLast(cleaned)]
      ELSE acc

\* instructor/substitute resolution of a section
ResolveInstructors(sec) ==
  LET h == FromHeader(sec.header)
  IN  IF sec.cell.kind = "items" /\ sec.cell.items # <<>>
      THEN FromList(h, sec.cell.items)
      ELSE IF sec.cell.kind = "text" THEN FromText(h, sec.cell.items[1])
      ELSE h

\* iconMap
IconFlags(icons) ==
  {f \in AllFlags :
     \/ f = "flag_new" /\ "1st-ever.png" \in icons
     \/ f = "flag_owes" /\ "balance.png" \in icons
     \/ f = "flag_makeup" /\ icons \cap {"birthday.png", "makeup.png"} # {}
     \/ f = "flag_policy" /\ "policy.png" \in icons
     \/ f = "flag_trial" /\ "trial.png" \in icons}

\* the rows pushed for one body row of a section
SwimmerRows(sec, sw, startTime, who, zone, cols) ==
  LET sub == who.substituteInstructor
      base == [date |-> NoDate, start_time |-> startTime,
               swimmer_name |-> lastFirstToFirstLast(sw.name),
               instructor_name |-> IF sub # <<>> THEN sub ELSE who.instructorName,
               substitute_instructor |-> sub,
               is_substitute |-> IF sub # <<>> THEN 1 ELSE 0,
               original_instructor |-> IF sub # <<>> THEN who.instructorName ELSE <<>>,
               program |-> normalizeProgramNonGroup(sec.program),
               zone |-> zone,
               attendance |-> NULL, attendance_auto_absent |-> 0,
               balance_amount |-> sw.balance,
               flags |-> IconFlags(sw.icons) \cup
                         (IF sw.balance # NULL /\ sw.balance # 0
                          THEN {"flag_owes"} ELSE {})]
      mark(r, c) == [r EXCEPT !.attendance = IF c \in sw.absent THEN 0 ELSE NULL,
                              !.attendance_auto_absent = IF c \in sw.auto THEN 1 ELSE 0]
  IN  IF cols # <<>>
      THEN [n \in DOMAIN cols |->
              [mark(base, cols[n].index) EXCEPT !.date = cols[n].date,
                                                !.start_time = cols[n].start_time]]
      ELSE <<[base EXCEPT !.attendance = IF sw.absent # {} THEN 0 ELSE NULL,
                          !.attendance_auto_absent = IF sw.auto # {} THEN 1 ELSE 0]>>

\* the rows of one section; a section without a start time gives none
SectionRows(sec, thisYear) ==
  LET startTime == IF sec.time \in TimeWords
                   THEN normalizeTimeTo24h(Str(Spell(sec.time))) ELSE JsNull
      who == ResolveInstructors(sec)
      zone == IF Len(sec.zone) = 2 /\ sec.zone[1] = "Zone" /\ sec.zone[2] \in Numerals
              THEN parseInt(<<sec.zone[2]>>) ELSE 1
      cols == parseRosterDateColumns(sec.columns, sec.range, startTime, thisYear)
  IN  IF startTime.type # "string" THEN <<>>
      ELSE Flatten([k \in DOMAIN sec.swimmers |->
                      SwimmerRows(sec, sec.swimmers[k], startTime, who, zone, cols)])

\* parseHTMLRoster(html).swimmers when the wall clock shows thisYear
parseHTMLRoster(doc, thisYear) ==
  Flatten([k \in DOMAIN doc |-> SectionRows(doc[k], thisYear)])

\* datesFound
DatesFound(rows) == {rows[k].date : k \in DOMAIN rows} \ {NoDate}

\* --------------------------------------------------- HTML documents
MaxItems == 2          \* entries of an instructor list
MaxColumns == 2        \* date columns of a roll sheet table

Instructors == {<<"Smith,", "Jane">>, <<"Doe,", "John">>}

\* an instructor as written: unmarked, with an asterisk, with "(sub)"
Written == {n \o m : n \in Instructors, m \in {<<>>, <<"*">>, <<"(sub)">>}}

InstructorCells ==
  {[kind |-> "none", items |-> <<>>]}
  \cup {[kind |-> "items", items |-> it] : it \in SeqsUpTo(Written, MaxItems)}
  \cup {[kind |-> "text", items |-> <<t>>] : t \in Written \cup {<<>>}}

OtherCell == [kind |-> "other", month |-> 0, day |-> 0, year |-> 0, time |-> ""]

\* header cells that hold a date, with and without a year and a time
DateCells ==
  {[kind |-> "date", month |-> 1, day |-> 5, year |-> 0, time |-> ""],
   [kind |-> "date", month |-> 12, day |-> 29, year |-> 0, time |-> "10am"],
   [kind |-> "date", month |-> 1, day |-> 5, year |-> 2026, time |-> ""]}

HeaderRows == {<<OtherCell>> \o cs : cs \in SeqsUpTo(DateCells, MaxColumns)}

Ranges ==
  {NoRange,
   [startYear |-> 2026, endYear |-> 2026, startMonth |-> 1, startDay |-> 5],
   [startYear |-> 2025, endYear |-> 2026, startMonth |-> 12, startDay |-> 29]}

HtmlSwimmers ==
  {[name |-> <<"Poe,", "Amy">>, icons |-> {}, balance |-> NULL, absent |-> {}, auto |-> {}],
   [name |-> <<"Poe,", "Amy">>, icons |-> {"trial.png"}, balance |-> 25, absent |-> {2},
    auto |-> {2}]}

PlainSection ==
  [time |-> "9:00am", header |-> <<>>,
   cell |-> [kind |-> "items", items |-> <<<<"Smith,", "Jane">>>>],
   zone |-> <<"Zone", "2">>, program |-> <<"PRIVATE">>, range |-> NoRange,
   columns |-> <<OtherCell>>, swimmers |-> <<CHOOSE s \in HtmlSwimmers : s.icons = {}>>]

\* the sections: every way of naming the instructors, and every way of
\* dating the columns
Sections ==
  {[PlainSection EXCEPT !.header = h, !.cell = c, !.columns = cs] :
     h \in Written \cup {<<>>}, c \in InstructorCells,
     cs \in {<<OtherCell>>, <<OtherCell, CHOOSE d \in DateCells : d.year # 0>>}}
  \cup
  {[PlainSection EXCEPT !.columns = cs, !.range = r, !.swimmers = <<s>>, !.time = t] :
     cs \in HeaderRows, r \in Ranges, s \in HtmlSwimmers, t \in {"9:00am", ""}}
  \cup
  {[PlainSection EXCEPT !.zone = z] :
     z \in {<<>>, <<"Zone", "5">>, <<"Deep", "End">>}}

HtmlPages ==
  {<<>>} \cup {<<s>> : s \in Sections}
  \cup {<<PlainSection, s>> : s \in {x \in Sections : x.header = <<>>
                                       /\ x.cell.kind = "text"}}

HtmlIdle == [pc |-> "idle", doc |-> <<>>, year |-> 0, s |-> 1, swimmers |-> <<>>]

\* the callback of .each on the next section
ParseSection ==
  /\ htmlRun.pc = "parsing" /\ htmlRun.s <= Len(htmlRun.doc)
  /\ htmlRun' = [htmlRun EXCEPT
       !.swimmers = @ \o SectionRows(htmlRun.doc[htmlRun.s], htmlRun.year),
       !.s = @ + 1]
  /\ UNCHANGED <<rosterVars, serviceVars, timeCall, pdfRun>>

\* return { swimmers, dates }
ReturnParsed ==
  /\ htmlRun.pc = "parsing" /\ htmlRun.s > Len(htmlRun.doc)
  /\ htmlRun' = [htmlRun EXCEPT !.pc = "done"]
  /\ UNCHANGED <<rosterVars, serviceVars, timeCall, pdfRun>>

\* ------------------------------------------ detectFlags on characters
\* A context is the sequence of its characters.  A character is a string of
\* length one, or the name of a character outside ASCII.

\* the characters of a string of ASCII characters
Chars(s) == [i \in 1..Len(s) |-> SubSeq(s, i, i)]

LowerCaseLetters == Chars("abcdefghijklmnopqrstuvwxyz")
UpperCaseLetters == Chars("ABCDEFGHIJKLMNOPQRSTUVWXYZ")

\* letters outside ASCII, lower case and upper case, and the star glyphs
SmallAccented == "a with circumflex and grave"
CapitalAccented == "A with circumflex and grave"
StarGlyphs == {"white medium star", "black star"}

\* c.toUpperCase()
UpperChar(c) ==
  IF \E i \in 1..26 : LowerCaseLetters[i] = c
  THEN UpperCaseLetters[CHOOSE i \in 1..26 : LowerCaseLetters[i] = c]
  ELSE IF c = SmallAccented THEN CapitalAccented ELSE c

\* s.toUpperCase()
toUpperCase(s) == [i \in DOMAIN s |-> UpperChar(s[i])]

\* \w of a regular expression without the u flag: [A-Za-z0-9_]
WordChars ==
  Range(LowerCaseLetters) \cup Range(UpperCaseLetters) \cup Range(Chars("0123456789_"))

\* the letters and digits of any script
LettersAndDigits == WordChars \cup {SmallAccented, CapitalAccented}

\* \s
IsSpace(c) == c = " "

\* \b before position i of s, for a given notion of word character
Boundary(s, i, word) ==
  LET before == i - 1 \in DOMAIN s /\ s[i - 1] \in word
      after == i \in DOMAIN s /\ s[i] \in word
  IN  before # after

\* the literal lit stands in s at position i
LitAt(s, i, lit) ==
  /\ i >= 1 /\ i + Len(lit) - 1 <= Len(s)
  /\ \A k \in DOMAIN lit : s[i + k - 1] = lit[k]

\* A token of detectFlags: one literal, or two literals with \s* between
\* them, with or without \b at both ends.
Token(w) == [bounded |-> TRUE, parts |-> <<Chars(w)>>]
TwoWords(a, b) == [bounded |-> TRUE, parts |-> <<Chars(a), Chars(b)>>]
Glyph(c) == [bounded |-> FALSE, parts |-> <<<<c>>>>]

\* re.test(s) for a token, \b read with the given notion of word character
TokenIn(s, tok, word) ==
  \E i \in DOMAIN s :
    LET first == tok.parts[1]
        e1 == i + Len(first)
    IN  /\ tok.bounded => Boundary(s, i, word)
        /\ LitAt(s, i, first)
        /\ IF Len(tok.parts) = 1
           THEN tok.bounded => Boundary(s, e1, word)
           ELSE \E j \in e1..Len(s) :
                  /\ \A k \in e1..(j - 1) : IsSpace(s[k])
                  /\ LitAt(s, j, tok.parts[2])
                  /\ tok.bounded => Boundary(s, j + Len(tok.parts[2]), word)

\* the tokens of each flag
FlagTokens(flag) ==
  CASE flag = "flag_new" ->
         {Glyph(g) : g \in StarGlyphs} \cup
         {TwoWords("FIRST", "DAY"), TwoWords("FIRST", "TIME"),
          Token("NEW"), Token("FD"), Token("FIRST")}
    [] flag = "flag_makeup" ->
         {TwoWords("MAKE", "UP"), Token("MAKEUP"), Token("MKUP"), Token("MU"),
          Token("M/U"), Token("MUA")}
    [] flag = "flag_policy" ->
         {TwoWords("MISSING", "WAIVER"), TwoWords("MISSING", "POLICY"),
          Token("WAIVER"), Token("POLICY"), Token("MP")}
    [] flag = "flag_owes" ->
         {Token("OWES"), Token("OWE"), Token("UNPAID"), TwoWords("PAST", "DUE"),
          Token("BALANCE"), Token("DUE"), Glyph("$")}
    [] flag = "flag_trial" ->
         {Token("TRIAL"), Token("TR"), Token("TR."), TwoWords("TRIAL", "CLASS")}

\* hasToken(re)
hasToken(up, tok) == TokenIn(up, tok, WordChars)

\* detectFlags(contextText): the flags that are 1
detectFlagsOfText(contextText) ==
  LET up == toUpperCase(contextText)
  IN  {flag \in AllFlags : \E tok \in FlagTokens(flag) : hasToken(up, tok)}

\* ---------------------------------------------------------- context texts
MaxWords == 2          \* words of a context drawn freely

\* a name with a letter outside ASCII
AccentedName == <<"T", "r", SmallAccented, "n">>

ContextWords ==
  {Chars(w) : w \in {"Jane", "MAKEUP", "$50", "due", "Newton", "new", "TR.", "make",
                     "up", "first", "day", "Policy", "trial", "m/u", "endued"}}
  \cup {AccentedName, <<"black star">>}

\* the words joined by single blanks
RECURSIVE Joined(_)
Joined(ws) ==
  IF ws = <<>> THEN <<>>
  ELSE IF Len(ws) = 1 THEN ws[1]
  ELSE ws[1] \o <<" ">> \o Joined(Tail(ws))

ExampleContext == Chars("Jane Smith MAKEUP $50 due")

Contexts ==
  {Joined(ws) : ws \in SeqsUpTo(ContextWords, MaxWords)} \cup {ExampleContext}

FlagIdle == [pc |-> "idle", ctx |-> <<>>, flags |-> {}]

\* one call of detectFlags
DetectFlags ==
  /\ flagCall.pc = "called"
  /\ flagCall' = [flagCall EXCEPT !.pc = "returned",
                                  !.flags = detectFlagsOfText(flagCall.ctx)]
  /\ UNCHANGED <<rosterVars, parserVars, reportVars, speech, deckVars>>

\* ------------------------------------------------ manager report parsers
\* A report page is the sequence of the elements of its body.  An element is
\* a text element or a table; a table is the sequence of its tbody elements,
\* a tbody the sequence of its rows, a row the sequence of its cells.  A cell
\* holds at most one child element (an h2 or a strong) and may end with a
\* small.  A text is the sequence of its whitespace-separated pieces.

\* the pieces that hold a number: the integer safeInt reads, and the number
\* parseFloat reads in hundredths
NumberPieces == {"44", "35", "79.55%", "80", "12", "0"}

\* safeInt(value)
safeInt(w) ==
  CASE w = "44" -> 44 [] w = "35" -> 35 [] w = "79.55%" -> 79
    [] w = "80" -> 80 [] w = "12" -> 12 [] w = "0" -> 0 [] OTHER -> NULL

\* safeFloat(value), in hundredths
safeFloat(w) ==
  CASE w = "79.55%" -> 7955
    [] w \in NumberPieces -> 100 * safeInt(w)
    [] OTHER -> NULL

\* text.match(/-?\d+(\.\d+)?/) on a text: the first number in it
FirstNumber(t) ==
  IF \E k \in DOMAIN t : t[k] \in NumberPieces
  THEN safeFloat(t[FirstAt(t, 1, LAMBDA w : w \in NumberPieces)])
  ELSE NULL

\* the pieces that hold a date, and parseDateFromText of a text
DatePieces == {"2026-01-05"}
parseDateFromText(t) ==
  IF \E k \in DOMAIN t : t[k] \in DatePieces
  THEN t[FirstAt(t, 1, LAMBDA w : w \in DatePieces)]
  ELSE NoText

\* s.toLowerCase() of a piece
Lower(w) ==
  CASE w = "Totals" -> "totals" [] w = "Jane Smith" -> "jane smith"
    [] w = "Booked" -> "booked" [] w = "Instructor" -> "instructor"
    [] w = "Retention %" -> "retention %" [] w = "Swimmers" -> "swimmers"
    [] w = "Drop Date" -> "drop date" [] w = "Amy Poe" -> "amy poe"
    [] OTHER -> w

\* lower-cased pieces that include one of the given words
Including(words) ==
  {w \in {"totals", "jane smith", "booked", "instructor", "retention %",
          "swimmers", "drop date", "amy poe"} :
     \/ "booked" \in words /\ w = "booked"
     \/ "instructor" \in words /\ w = "instructor"
     \/ "retention" \in words /\ w = "retention %"
     \/ "%" \in words /\ w = "retention %"
     \/ "swimmer" \in words /\ w = "swimmers"}

\* /[a-z]/i.test(text)
HasLetter(t) == \E k \in DOMAIN t : t[k] \notin NumberPieces \cup DatePieces

\* text.length of the pieces joined by single blanks
RECURSIVE TextLength(_)
TextLength(t) ==
  IF t = <<>> THEN 0
  ELSE Len(Head(t)) + (IF Len(t) > 1 THEN 1 ELSE 0) + TextLength(Tail(t))

\* $(cell).text(), $(row).text(), $(tbody).text(), $(table).text()
CellText(c) == c.words \o c.small
RowText(tr) == Flatten([k \in DOMAIN tr |-> CellText(tr[k])])
BodyText(tb) == Flatten([k \in DOMAIN tb |-> RowText(tb[k])])
TableText(t) == Flatten([k \in DOMAIN t.tbodies |-> BodyText(t.tbodies[k])])

\* $table.find("tr"), and the cells of a tbody
Trs(t) == Flatten(t.tbodies)
Cells(tb) == Flatten(tb)

\* parseHTMLTable: the headers and rows of one table
TableRows(t) ==
  LET trs == Trs(t)
      texts(tr) == [k \in DOMAIN tr |-> CellText(tr[k])]
  IN  [headers |-> IF trs = <<>> THEN <<>> ELSE texts(trs[1]),
       rows |-> IF trs = <<>> THEN <<>>
                ELSE [k \in DOMAIN SelectSeq(Tail(trs), LAMBDA tr : tr # <<>>) |->
                        texts(SelectSeq(Tail(trs), LAMBDA tr : tr # <<>>)[k])]]

\* parseHTMLTable: tables.each keeps the first table with the most rows
RECURSIVE BestTable(_, _)
BestTable(best, tables) ==
  IF tables = <<>> THEN best
  ELSE LET cur == TableRows(Head(tables))
       IN  BestTable(IF ~best.found \/ Len(cur.rows) > Len(best.rows)
                     THEN [found |-> TRUE, headers |-> cur.headers, rows |-> cur.rows]
                     ELSE best,
                     Tail(tables))

\* $("table")
TablesOf(page) == SelectSeq(page, LAMBDA e : e.kind = "table")

\* parseHTMLTable(html)
parseHTMLTable(page) ==
  BestTable([found |-> FALSE, headers |-> <<>>, rows |-> <<>>], TablesOf(page))

\* lib/managerReportParsers.js pickInstructorName: the first h2 that is not a
\* caption; <<>> is null
pickInstructorName(t) ==
  LET all == Flatten([k \in DOMAIN t.tbodies |-> Cells(t.tbodies[k])])
      h2s == SelectSeq(all, LAMBDA c : c.tag = "h2" /\ c.words # <<>>)
      named == SelectSeq(h2s, LAMBDA c :
                 ~(\/ c.words = <<"Totals">>
                   \/ \E k \in DOMAIN c.words :
                        Lower(c.words[k]) \in Including({"booked", "retained"})))
  IN  IF named = <<>> THEN <<>> ELSE named[1].words

NoTotals == [booked |-> NULL, retained |-> NULL, percent_retained |-> NULL]

\* round2 of retained / booked * 100, in hundredths
PercentOf(retained, booked) == (20000 * retained + booked) \div (2 * booked)

\* the totals a tbody yields, when it holds two numbers in strong elements
BodyTotals(tb) ==
  LET strongs == SelectSeq(Cells(tb), LAMBDA c :
                   c.tag = "strong" /\ \E k \in DOMAIN c.words : c.words[k] \in NumberPieces)
      smalls == SelectSeq(Cells(tb), LAMBDA c : "79.55%" \in Range(c.small))
      booked == safeInt(strongs[1].words[1])
      retained == safeInt(strongs[2].words[1])
  IN  [booked |-> booked, retained |-> retained,
       percent_retained |->
         IF smalls # <<>> THEN safeFloat("79.55%")
         ELSE IF booked # NULL /\ booked # 0 /\ retained # NULL
              THEN PercentOf(retained, booked) ELSE NULL]

HasTotals(tb) ==
  Len(SelectSeq(Cells(tb), LAMBDA c :
        c.tag = "strong" /\ \E k \in DOMAIN c.words : c.words[k] \in NumberPieces)) >= 2

\* lib/managerReportParsers.js parseTotalsFromRetentionTable
parseTotalsFromRetentionTable(t) ==
  LET tbs == t.tbodies
      isTotals(tb) == LET hs == SelectSeq(Cells(tb), LAMBDA c : c.tag = "h2")
                      IN  hs # <<>> /\ hs[1].words = <<"Totals">>
      startIdx == IF \E i \in DOMAIN tbs : isTotals(tbs[i])
                  THEN FirstAt(tbs, 1, isTotals) + 1 ELSE 1
      rest == SelectSeq(SubSeq(tbs, startIdx, Len(tbs)), HasTotals)
  IN  IF rest = <<>> THEN NoTotals ELSE BodyTotals(rest[1])

\* lib/managerReportParsers.js parseRetentionReport: the loop over the tables
RECURSIVE LibRetentionTables(_, _)
LibRetentionTables(acc, tables) ==
  IF tables = <<>> THEN acc
  ELSE LET instructor == pickInstructorName(Head(tables))
           totals == parseTotalsFromRetentionTable(Head(tables))
       IN  IF instructor = <<>> THEN LibRetentionTables(acc, Tail(tables))
           ELSE LibRetentionTables(
                  [instructors |-> Append(acc.instructors,
                     [instructor |-> instructor, booked |-> totals.booked,
                      retained |-> totals.retained,
                      retention_percent |-> totals.percent_retained]),
                   warnings |-> IF NULL \in {totals.booked, totals.retained,
                                             totals.percent_retained}
                                THEN Append(acc.warnings, "Could not parse totals for instructor")
                                ELSE acc.warnings],
                  Tail(tables))

\* the de-duplication by lower-cased instructor name
RECURSIVE Deduped(_, _)
Deduped(acc, rows) ==
  IF rows = <<>> THEN acc
  ELSE Deduped(IF \E k \in DOMAIN acc : acc[k].instructor = Head(rows).instructor
               THEN acc ELSE Append(acc, Head(rows)),
               Tail(rows))

\* lib/managerReportParsers.js parseRetentionReport(html)
libParseRetentionReport(page) ==
  LET tables == SelectSeq(page, LAMBDA e : e.kind = "table" /\ e.report)
      found == LibRetentionTables(
                 [instructors |-> <<>>,
                  warnings |-> IF tables = <<>>
                               THEN <<"No instructor retention tables found.">> ELSE <<>>],
                 tables)
  IN  [rows |-> Deduped(<<>>, found.instructors), warnings |-> found.warnings]

\* lib/managerReportParsers.js parseAgedAccountsReport(html)
libParseAgedAccountsReport(page) ==
  LET rows == parseHTMLTable(page).rows
  IN  [rows |-> rows,
       warnings |-> IF rows = <<>> THEN <<"No aged accounts rows detected.">> ELSE <<>>]

\* lib/managerReportParsers.js parseDropListReport(html)
libParseDropListReport(page) ==
  LET rows == parseHTMLTable(page).rows
  IN  [rows |-> [k \in DOMAIN rows |-> [raw |-> rows[k]]],
       warnings |-> IF rows = <<>> THEN <<"No drop list rows detected.">> ELSE <<>>]

\* server.js parseRetentionReport: $("body").find("*"), in document order
ElementNodes(e) ==
  IF e.kind = "text" THEN <<[table |-> FALSE, text |-> e.words, el |-> e]>>
  ELSE <<[table |-> TRUE, text |-> TableText(e), el |-> e]>>
       \o Flatten([b \in DOMAIN e.tbodies |->
            <<[table |-> FALSE, text |-> BodyText(e.tbodies[b]), el |-> e]>>
            \o Flatten([r \in DOMAIN e.tbodies[b] |->
                 <<[table |-> FALSE, text |-> RowText(e.tbodies[b][r]), el |-> e]>>
                 \o Flatten([c \in DOMAIN e.tbodies[b][r] |->
                      LET cell == e.tbodies[b][r][c]
                          node(t) == [table |-> FALSE, text |-> t, el |-> e]
                      IN  <<node(CellText(cell))>>
                          \o (IF cell.tag \in {"h2", "strong"} THEN <<node(cell.words)>> ELSE <<>>)
                          \o (IF cell.small # <<>> THEN <<node(cell.small)>> ELSE <<>>)])])])

BodyNodes(page) == Flatten([k \in DOMAIN page |-> ElementNodes(page[k])])

\* server.js parseRetentionReport, extractPercent(table)
extractPercent(t) ==
  LET trs == Trs(t)
  IN  IF trs = <<>> \/ Len(trs[1]) < 2 THEN NULL ELSE FirstNumber(CellText(trs[1][2]))

\* server.js parseRetentionReport, extractSwimmerCount(tableList)
extractSwimmerCount(tableList) ==
  LET cells == Flatten([k \in DOMAIN tableList |->
                 Flatten([r \in DOMAIN Trs(tableList[k]) |->
                    LET tr == Trs(tableList[k])[r]
                    IN  [c \in DOMAIN tr |->
                           [label |-> \E w \in Range(CellText(tr[c])) :
                                         Lower(w) \in Including({"swimmer", "student", "count"}),
                            next |-> IF c < Len(tr) THEN FirstNumber(CellText(tr[c + 1]))
                                     ELSE NULL]]])])
      hits == SelectSeq(cells, LAMBDA x : x.label /\ x.next # NULL)
  IN  IF hits = <<>> THEN NULL ELSE hits[1].next

\* server.js parseRetentionReport: isCandidate
IsCandidate(text) ==
  TextLength(text) > 1 /\ TextLength(text) < 60 /\ HasLetter(text)

\* server.js parseRetentionReport: the while loop over the nodes
RECURSIVE RetentionWalk(_, _, _)
RetentionWalk(acc, nodes, i) ==
  IF i > Len(nodes) THEN acc
  ELSE IF nodes[i].table \/ ~IsCandidate(nodes[i].text)
  THEN RetentionWalk(acc, nodes, i + 1)
  ELSE LET after == {j \in (i + 1)..Len(nodes) : nodes[j].table}
           upTo(j) == {k \in after : k <= j}
       IN  IF Cardinality(after) >= 4
           THEN LET last4 == CHOOSE j \in after : Cardinality(upTo(j)) = 4
                    tableList == [n \in 1..4 |->
                                    nodes[CHOOSE j \in after : Cardinality(upTo(j)) = n].el]
                IN  RetentionWalk(
                      Append(acc, [instructor |-> nodes[i].text,
                                   retention_percent |-> extractPercent(tableList[2]),
                                   swimmer_count |-> extractSwimmerCount(tableList)]),
                      nodes, last4 + 1)
           ELSE RetentionWalk(acc, nodes, i + 1)

\* headerMap.findIndex(...): the column whose header includes one of the
\* words, else the default column
ColumnOf(headers, words, default) ==
  LET hit(h) == \E w \in Range(h) : Lower(w) \in Including(words)
  IN  IF \E k \in DOMAIN headers : hit(headers[k])
      THEN FirstAt(headers, 1, hit) ELSE default

\* cols[idx] || ""
ColumnText(cols, idx) == IF idx \in DOMAIN cols THEN cols[idx] ELSE <<>>

\* server.js parseRetentionReport: the rows of the largest table, when the
\* walk found no instructor
RetentionFallback(page) ==
  LET t == parseHTMLTable(page)
      instructorIdx == ColumnOf(t.headers, {"instructor", "coach"}, 1)
      percentIdx == ColumnOf(t.headers, {"%", "retention"}, 2)
      countIdx == ColumnOf(t.headers, {"swimmer", "count"}, 3)
      named == SelectSeq(t.rows, LAMBDA cols : ColumnText(cols, instructorIdx) # <<>>)
  IN  [k \in DOMAIN named |->
         [instructor |-> ColumnText(named[k], instructorIdx),
          retention_percent |-> FirstNumber(ColumnText(named[k], percentIdx)),
          swimmer_count |-> FirstNumber(ColumnText(named[k], countIdx))]]

\* server.js parseRetentionReport(html)
parseRetentionReport(page) ==
  LET w1 == IF TablesOf(page) = <<>> THEN <<"No retention tables detected.">> ELSE <<>>
      walked == RetentionWalk(<<>>, BodyNodes(page), 1)
      w2 == IF walked = <<>> /\ parseHTMLTable(page).rows = <<>>
            THEN <<"No retention rows detected.">> ELSE <<>>
      instructors == IF walked = <<>> THEN RetentionFallback(page) ELSE walked
      w3 == IF instructors = <<>>
            THEN <<"No instructors detected in retention report.">> ELSE <<>>
  IN  [rows |-> instructors, warnings |-> w1 \o w2 \o w3]

\* server.js parseAgedAccountsReport(html)
parseAgedAccountsReport(page) ==
  LET rows == parseHTMLTable(page).rows
  IN  [rows |-> rows,
       warnings |-> IF rows = <<>> THEN <<"No aged accounts rows detected.">> ELSE <<>>]

\* server.js parseDropListReport(html)
parseDropListReport(page) ==
  LET rows == parseHTMLTable(page).rows
      entries == [k \in DOMAIN rows |->
                    [raw |-> rows[k], drop_date |-> parseDateFromText(Flatten(rows[k]))]]
  IN  [rows |-> entries,
       warnings |->
         (IF rows = <<>> THEN <<"No drop list rows detected.">> ELSE <<>>)
         \o (IF \A k \in DOMAIN entries : entries[k].drop_date = NoText
             THEN <<"No drop dates detected in drop list.">> ELSE <<>>)]

\* the parsers by name
ReportParsers == {"retention", "aged_accounts", "drop_list",
                  "lib_retention", "lib_aged_accounts", "lib_drop_list"}

ParseReport(parser, page) ==
  CASE parser = "retention" -> parseRetentionReport(page)
    [] parser = "aged_accounts" -> parseAgedAccountsReport(page)
    [] parser = "drop_list" -> parseDropListReport(page)
    [] parser = "lib_retention" -> libParseRetentionReport(page)
    [] parser = "lib_aged_accounts" -> libParseAgedAccountsReport(page)
    [] parser = "lib_drop_list" -> libParseDropListReport(page)

\* ---------------------------------------------------------- report pages
MaxElements == 2       \* elements of the body of a report page drawn freely

PlainCell(t) == [tag |-> "plain", words |-> t, small |-> <<>>]
H2Cell(w) == [tag |-> "h2", words |-> <<w>>, small |-> <<>>]
StrongCell(w, small) == [tag |-> "strong", words |-> <<w>>, small |-> small]

TextElement(w) == [kind |-> "text", words |-> <<w>>, report |-> FALSE, tbodies |-> <<>>]
Table(report, tbodies) ==
  [kind |-> "table", words |-> <<>>, report |-> report, tbodies |-> tbodies]

\* tables of a retention report: an instructor with totals, totals without an
\* instructor heading, an instructor without totals
TotalsBodies ==
  << <<<<H2Cell("Totals")>>>>,
     <<<<StrongCell("44", <<>>), StrongCell("35", <<"79.55%">>)>>>> >>

RetentionTable == Table(TRUE, <<<<<<H2Cell("Jane Smith")>>>>>> \o TotalsBodies)
RetentionNoName == Table(TRUE, TotalsBodies)
RetentionNoTotals == Table(TRUE, <<<<<<H2Cell("Jane Smith")>>>>>>)

\* tables with a header row
PlainTable ==
  Table(FALSE, << << <<PlainCell(<<"Instructor">>), PlainCell(<<"Retention %">>),
                       PlainCell(<<"Swimmers">>)>>,
                     <<PlainCell(<<"Jane Smith">>), PlainCell(<<"80">>),
                       PlainCell(<<"12">>)>> >> >>)
DropTable ==
  Table(FALSE, << << <<PlainCell(<<"Swimmers">>), PlainCell(<<"Drop Date">>)>>,
                     <<PlainCell(<<"Amy Poe">>), PlainCell(<<"2026-01-05">>)>> >> >>)
HeaderOnlyTable == Table(FALSE, << << <<PlainCell(<<"Instructor">>)>> >> >>)
EmptyTable == Table(FALSE, <<>>)

ReportElements ==
  {TextElement("Jane Smith"), RetentionTable, RetentionNoName, RetentionNoTotals,
   PlainTable, DropTable, HeaderOnlyTable, EmptyTable}

\* an instructor heading followed by the four tables of one instructor
FourTables == <<TextElement("Jane Smith"), EmptyTable, PlainTable, EmptyTable, EmptyTable>>

ReportPages == SeqsUpTo(ReportElements, MaxElements) \cup {FourTables}

ReportIdle == [pc |-> "idle", parser |-> "retention", page |-> <<>>,
               result |-> [rows |-> <<>>, warnings |-> <<>>]]

\* one call of a report parser
CallReportParser ==
  /\ reportCall.pc = "called"
  /\ reportCall' = [reportCall EXCEPT
       !.pc = "returned", !.result = ParseReport(reportCall.parser, reportCall.page)]
  /\ UNCHANGED <<rosterVars, parserVars, flagCall, reportData, reportSeq, reportLast, speech, deckVars>>

\* ----------------------------------------- POST /api/manager-reports/upload
\* MANAGER_REPORT_TYPES; balance_list behaves as billing does
ManagerReportTypes == {"retention", "aged_accounts", "drop_list", "billing"}

\* resolveLocationByName(name): the id of the location of that name, else NULL
resolveLocationByName(name) ==
  CASE name = "Westside" -> 1 [] name = "Eastside" -> 2 [] OTHER -> NULL

\* getLocationById(id)
getLocationById(id) == IF id \in Locations THEN id ELSE NULL

\* the location the report is stored under; NULL when the request is
\* answered with status 400
ReportLocation(reportType, locationName, locId) ==
  LET named == IF reportType # "drop_list" /\ locationName # ""
               THEN resolveLocationByName(locationName) ELSE NULL
  IN  IF named # NULL THEN named
      ELSE IF locId = 0 THEN NULL
      ELSE getLocationById(locId)

\* parsed, as stored in data_json; a type without a parser stores {}
ReportParsed(reportType, page) ==
  IF reportType \in {"retention", "aged_accounts", "drop_list"}
  THEN ParseReport(reportType, page)
  ELSE [rows |-> <<>>, warnings |-> <<>>]

\* warnings, as stored in warnings_json
ReportWarnings(reportType, html, locId, location) ==
  ReportParsed(reportType, html.page).warnings
  \o (IF html.location # "" /\ locId # 0
         /\ resolveLocationByName(html.location) # location
      THEN <<"HTML location does not match selected location.">> ELSE <<>>)

ReportArchiveMut(rs, reportType, location) ==
  IF reportType # "aged_accounts" THEN rs
  ELSE {IF r.report_type = "aged_accounts" THEN [r EXCEPT !.archived = 1] ELSE r : r \in rs}

\* UPDATE manager_report_data SET archived = 1 WHERE location_id = ? AND
\* report_type = 'aged_accounts', run for an aged_accounts upload only
ReportArchive(rs, reportType, location) ==
  IF reportType # "aged_accounts" THEN rs
  ELSE {IF r.location_id = location /\ r.report_type = "aged_accounts"
        THEN [r EXCEPT !.archived = 1] ELSE r : r \in rs}

\* INSERT INTO manager_report_data (...) VALUES (?, ?, ?, ?, ?, ?, 0)
ReportRecord(id, reportType, html, locId, location, now) ==
  [id |-> id, location_id |-> location, report_type |-> reportType,
   report_date |-> html.date,
   data |-> ReportParsed(reportType, html.page).rows,
   warnings |-> ReportWarnings(reportType, html, locId, location),
   uploaded_at |-> now, archived |-> 0]

\* what the handler answers
ReportAnswer(op, status, id) == [op |-> op, status |-> status, id |-> id]

\* POST /api/manager-reports/upload.  html: the uploaded file, with the
\* location and the date its text names; fault "insert": the INSERT throws
UploadReport(reportType, html, locId, fault) ==
  LET location == ReportLocation(reportType, html.location, locId)
      status == IF reportType \notin ManagerReportTypes THEN 400
                ELSE IF location = NULL THEN 400
                ELSE IF reportType = "drop_list" /\ locId = 0 THEN 400
                ELSE IF fault = "insert" THEN 500
                ELSE 200
      archived == ReportArchive(reportData, reportType, location)
  IN  /\ clock < MaxClock
      /\ status = 400 => fault = "none"
      /\ reportData' =
           CASE status = 200 ->
                  archived \cup {ReportRecord(reportSeq + 1, reportType, html, locId,
                                              location, nowISO)}
             [] status = 500 -> archived
             [] OTHER -> reportData
      /\ reportSeq' = IF status = 200 THEN reportSeq + 1 ELSE reportSeq
      /\ reportLast' = ReportAnswer("upload", status, IF status = 200 THEN reportSeq + 1 ELSE 0)
      /\ clock' = IF status = 400 THEN clock ELSE clock + 1
      /\ UNCHANGED <<roster, activeDate, exports, last, parserVars, flagCall, reportCall, speech, deckVars>>

\* POST /api/manager-reports/delete
DeleteReport(id) ==
  LET found == {r \in reportData : r.id = id}
  IN  /\ clock < MaxClock
      /\ reportData' = reportData \ found
      /\ reportLast' = ReportAnswer("delete", IF found = {} THEN 404 ELSE 200, id)
      /\ clock' = IF found = {} THEN clock ELSE clock + 1
      /\ UNCHANGED <<roster, activeDate, exports, last, parserVars, flagCall, reportCall, reportSeq, speech, deckVars>>

\* the uploaded files: a report with rows and one without, dated or not
ReportFiles ==
  [location : {"", "Westside"}, date : {NoText, "2026-01-05"},
   page : {<<PlainTable>>, <<>>}]

\* ------------------------------------------------------- speakAnnouncement
\* speech.calls: the calls of the four announcing handlers, in the order of
\* their arrival.  The promise chain speakQueue is the phases of the calls:
\*   refused    speakAnnouncement returned without chaining (empty text), or
\*              the handler answered before calling it
\*   queued     chained, callback not run
\*   ping, timer, piper, play   the callback is running
\*   fulfilled  the callback returned
\*   rejected   the callback threw
\*   skipped    the promise it was chained to rejected, so the callback of
\*              .then(onFulfilled) never ran and its promise rejected too
\* answer is the status the handler answered with, 0 while it awaits.
MaxAnnouncements == 3  \* calls of the announcing handlers in one behaviour

SpeakEndpoints == {"speak", "repeat_last", "force_time_announcement", "call_parent"}

Running == {"ping", "timer", "piper", "play"}
Settled == {"fulfilled", "rejected", "skipped"}

\* the calls that were chained to speakQueue
Chained(calls) == {k \in DOMAIN calls : calls[k].phase # "refused"}

\* the call whose promise speakQueue was when call k was chained; 0 stands
\* for the initial Promise.resolve()
Predecessor(calls, k) ==
  IF \E j \in Chained(calls) : j < k
  THEN CHOOSE j \in Chained(calls) : j < k /\ \A i \in Chained(calls) : i < k => i <= j
  ELSE 0

CanStartMut(calls, k) == calls[k].phase = "queued"

\* speakQueue.then(async () => ...): the callback runs once the promise it
\* was chained to has fulfilled
CanStart(calls, k) ==
  /\ calls[k].phase = "queued"
  /\ Predecessor(calls, k) # 0 => calls[Predecessor(calls, k)].phase = "fulfilled"

\* the text the handler hands to speakAnnouncement; "" is refused
SpokenText(endpoint, text) ==
  CASE endpoint = "speak" -> text
    [] endpoint = "repeat_last" -> speech.lastAnnouncement
    [] endpoint = "force_time_announcement" -> "classes are starting soon"
    [] endpoint = "call_parent" -> "please come to the front desk"

\* a handler receives a request and calls speakAnnouncement
SpeakAnnouncement(endpoint, text) ==
  LET cleaned == SpokenText(endpoint, text)
      call == [endpoint |-> endpoint, text |-> cleaned,
               phase |-> IF cleaned = "" THEN "refused" ELSE "queued",
               answer |-> IF cleaned = "" THEN 400 ELSE 0,
               after_failure |-> \E j \in DOMAIN speech.calls :
                                    speech.calls[j].phase = "rejected"]
  IN  /\ Len(speech.calls) < MaxAnnouncements
      /\ endpoint # "speak" => text = "page"
      /\ speech' = [speech EXCEPT !.calls = Append(@, call)]

\* the callback of call k begins: lastAnnouncement = {text, at}, playPing()
StartAnnouncement(k) ==
  /\ CanStart(speech.calls, k)
  /\ speech' = [speech EXCEPT !.calls[k].phase = "ping",
                              !.lastAnnouncement = speech.calls[k].text]

\* the promise call k was chained to has rejected
SkipAnnouncement(k) ==
  /\ speech.calls[k].phase = "queued"
  /\ Predecessor(speech.calls, k) # 0
  /\ speech.calls[Predecessor(speech.calls, k)].phase \in {"rejected", "skipped"}
  /\ speech' = [speech EXCEPT !.calls[k].phase = "skipped"]

\* playPing() resolves: no ping file, playback closed, or playback error
PingDone(k) ==
  /\ speech.calls[k].phase = "ping"
  /\ speech' = [speech EXCEPT !.calls[k].phase = "timer"]

\* the 350 ms timer fires and speakWithPiper starts; installed: the Piper
\* binary and the voice model exist
TimerFired(k, installed) ==
  /\ speech.calls[k].phase = "timer"
  /\ speech' = [speech EXCEPT !.calls[k].phase = IF installed THEN "piper" ELSE "rejected"]

\* p.on("error"), p.on("close", code)
PiperExit(k, code) ==
  /\ speech.calls[k].phase = "piper"
  /\ speech' = [speech EXCEPT !.calls[k].phase = IF code = 0 THEN "play" ELSE "rejected"]

\* playWav(TTS_OUT_WAV): player.on("close"), player.on("error")
PlayDone(k, error) ==
  /\ speech.calls[k].phase = "play"
  /\ speech' = [speech EXCEPT !.calls[k].phase = IF error THEN "rejected" ELSE "fulfilled"]

\* the promise speakAnnouncement returned has settled: the handler answers
AnswerSpeak(k) ==
  /\ speech.calls[k].answer = 0
  /\ speech.calls[k].phase \in Settled
  /\ speech' = [speech EXCEPT
       !.calls[k].answer = IF speech.calls[k].phase = "fulfilled" THEN 200 ELSE 500]

SpeechIdle == [calls |-> <<>>, lastAnnouncement |-> ""]

\* ------------------------------------- manager code, read-only mode
MAX_FAILS == 3
LOCKOUT_MS == 2        \* in minutes, the unit of wall
MaxWall == 4           \* minutes of wall-clock time in one behaviour

IPs == {"10.0.0.7", "10.0.0.8"}

\* ipAuthState.get(ip) of an address that was never seen
NoAuth == [fails |-> 0, lockedUntil |-> 0]

\* isLocked(ip)
isLocked(auth, ip, now) == auth[ip].lockedUntil # 0 /\ now < auth[ip].lockedUntil

recordFailMut(auth, ip, now) ==
  [a \in DOMAIN auth |->
     IF auth[ip].fails + 1 >= MAX_FAILS
     THEN [fails |-> 0, lockedUntil |-> now + LOCKOUT_MS]
     ELSE IF a = ip THEN [auth[ip] EXCEPT !.fails = @ + 1] ELSE auth[a]]

\* recordFail(ip)
recordFail(auth, ip, now) ==
  [auth EXCEPT ![ip] = IF @.fails + 1 >= MAX_FAILS
                       THEN [fails |-> 0, lockedUntil |-> now + LOCKOUT_MS]
                       ELSE [@ EXCEPT !.fails = @ + 1]]

\* clearFail(ip)
clearFail(auth, ip) == [auth EXCEPT ![ip] = NoAuth]

\* time passes
Tick ==
  /\ wall < MaxWall
  /\ wall' = wall + 1
  /\ UNCHANGED <<rosterVars, parserVars, flagCall, reportVars, speech, ipAuthState, readOnlyMode>>

\* POST /api/update-zone with device_mode "deck".  code_ok: verifyManagerCode
\* of the manager_code sent; a zone outside 1..4 ends in the catch block
\* before the code is looked at
UpdateZoneDeck(st, sn, new_zone, ip, code_ok) ==
  LET valid == new_zone \in {1, 2, 3, 4}
      locked == isLocked(ipAuthState, ip, wall)
      failed == recordFail(ipAuthState, ip, wall)
      status == IF ~valid THEN "rejected"
                ELSE IF locked THEN "locked"
                ELSE IF ~code_ok
                     THEN IF isLocked(failed, ip, wall) THEN "now_locked" ELSE "invalid_code"
                ELSE "ok"
  IN  /\ clock < MaxClock
      /\ ipAuthState' = CASE status \in {"now_locked", "invalid_code"} -> failed
                          [] status = "ok" -> clearFail(ipAuthState, ip)
                          [] OTHER -> ipAuthState
      /\ roster' = IF status # "ok" THEN roster
                   ELSE (roster \ Addressed(roster, st, sn)) \cup
                     {[r EXCEPT !.zone = new_zone,
                                !.zone_overridden = 1,
                                !.zone_override_at = nowISO,
                                !.zone_override_by = ip,
                                !.updated_at = nowISO] : r \in Addressed(roster, st, sn)}
      /\ clock' = IF status = "ok" THEN clock + 1 ELSE clock
      /\ last' = [Manual("update_zone_deck", st, sn, status) EXCEPT !.doc =
                    <<[start_time |-> st, swimmer_name |-> sn, ip |-> ip,
                       code_ok |-> code_ok, zone |-> new_zone]>>]
      /\ UNCHANGED <<activeDate, exports, parserVars, flagCall, reportVars, speech, wall, readOnlyMode>>

\* POST /api/read-only
SetReadOnly(enabled) ==
  /\ readOnlyMode' = enabled
  /\ last' = [op |-> "read_only_toggle", loc |-> DefaultLocation, date |-> NULL,
              status |-> "ok", doc |-> <<>>, into_empty |-> roster = {}]
  /\ UNCHANGED <<roster, activeDate, exports, clock, parserVars, flagCall, reportVars, speech,
                 ipAuthState, wall>>

\* GET /api/read-only: res.json({ ok: true, read_only: getReadOnlyMode() })
GetReadOnly ==
  /\ last' = [op |-> "read_only", loc |-> DefaultLocation, date |-> NULL,
              status |-> IF readOnlyMode THEN "true" ELSE "false",
              doc |-> <<>>, into_empty |-> roster = {}]
  /\ UNCHANGED <<roster, activeDate, exports, clock, parserVars, flagCall, reportVars, speech,
                 ipAuthState, wall, readOnlyMode>>

\* -------------------------------------------------- the roster handlers
\* the roster side of the state after start
InitRoster ==
  /\ roster = {}
  /\ activeDate = NULL
  /\ exports = {}
  /\ clock = 0
  /\ last = [op |-> "start", loc |-> DefaultLocation, date |-> NULL,
             status |-> "ok", doc |-> <<>>, into_empty |-> TRUE]

\* the server after start: no parser is running
InitParsers == timeCall = TimeIdle /\ pdfRun = PdfIdle /\ htmlRun = HtmlIdle

\* no report stored, no report parser running
InitReports ==
  /\ reportCall = ReportIdle
  /\ reportData = {} /\ reportSeq = 0 /\ reportLast = ReportAnswer("start", 200, 0)

\* no address has failed, read-only mode is off
InitDeckIdle ==
  /\ ipAuthState = [ip \in IPs |-> NoAuth] /\ wall = 0 /\ readOnlyMode = FALSE

InitServices ==
  /\ flagCall = FlagIdle /\ InitReports /\ speech = SpeechIdle /\ InitDeckIdle

Init ==
  /\ InitRoster
  /\ InitParsers
  /\ InitServices

Next ==
  \/ \E locId \in Locations, doc \in HtmlDocs, d \in DetectedDates,
        fault \in {"none", "export_write", "insert"} :
        /\ (\A i \in DOMAIN doc : doc[i].date # NULL) => d = Today
        /\ UploadHtml(locId, doc, d, fault)
        /\ UNCHANGED <<parserVars, serviceVars>>
  \/ \E pdf \in {"ok", "unreadable"}, doc \in PdfDocs, fault \in {"none", "insert"} :
        ImportToday(pdf, doc, fault)
        /\ UNCHANGED <<parserVars, serviceVars>>
  \/ \E locId \in Locations, file \in exports, fault \in {"none", "insert"} :
        \E rows \in Orders(file.roster) : ImportServer(locId, file, rows, fault)
        /\ UNCHANGED <<parserVars, serviceVars>>
  \/ \E st \in StartTimes, sn \in Names, att \in {NULL, 0, 1} : Attendance(st, sn, att)
        /\ UNCHANGED <<parserVars, serviceVars>>
  \/ \E st \in StartTimes, sn \in Names, z \in {3, 7} : UpdateZone(st, sn, z, "10.0.0.7")
        /\ UNCHANGED <<parserVars, serviceVars>>
  \/ \E st \in StartTimes, sn \in Names, f \in {{}, {"flag_trial"}} : UpdateFlags(st, sn, f)
        /\ UNCHANGED <<parserVars, serviceVars>>
  \/ \E st \in StartTimes, sn \in Names, z \in {NULL, 2, 5}, locId \in Locations :
        AddSwimmer(st, sn, "Lou Day", z, locId)
        /\ UNCHANGED <<parserVars, serviceVars>>
  \/ \E st \in StartTimes, sn \in Names : RemoveAddon(st, sn)
        /\ UNCHANGED <<parserVars, serviceVars>>
  \/ \E d \in Dates : SetActiveDate(d)
        /\ UNCHANGED <<parserVars, serviceVars>>
  \/ \E locId \in Locations, fault \in {"none", "export_write"} : ClearRoster(locId, fault)
        /\ UNCHANGED <<parserVars, serviceVars>>
  \/ \E locId \in Locations, fault \in {"none", "export_write"} :
        ClearRosterFuture(locId, fault)
        /\ UNCHANGED <<parserVars, serviceVars>>
  \/ \E hasRange \in BOOLEAN, fault \in {"none", "export_write"} :
        ClearRosterAll(hasRange, Today, Today + 1, fault)
        /\ UNCHANGED <<parserVars, serviceVars>>

Spec == Init /\ [][Next]_vars

\* ------------------------------------------- runs of normalizeTimeTo24h
InitTime ==
  /\ InitRoster
  /\ timeCall \in {[pc |-> "called", raw |-> r, result |-> JsNull] : r \in TimeInputs}
  /\ pdfRun = PdfIdle /\ htmlRun = HtmlIdle
  /\ InitServices

NextTime == NormalizeTime

SpecTime == InitTime /\ [][NextTime]_vars

\* ------------------------ runs of getTodayPdfText and parseRosterFromLines
InitPdf ==
  /\ InitRoster
  /\ pdfRun \in PdfRequests(PdfTexts(MaxLines))
  /\ timeCall = TimeIdle /\ htmlRun = HtmlIdle
  /\ InitServices

NextPdf ==
  \/ GetTodayPdfText
  \/ ProcError
  \/ ProcClose
  \/ ParseLine
  \/ AnswerImported

SpecPdf == InitPdf /\ [][NextPdf]_vars

\* The callbacks of a request run when their events have arrived: the event
\* loop does not leave an enabled step of the request waiting forever.
InitPdfShort ==
  /\ InitRoster
  /\ pdfRun \in PdfRequests(PdfTexts(ShortLines))
  /\ timeCall = TimeIdle /\ htmlRun = HtmlIdle
  /\ InitServices

SpecPdfFair == InitPdfShort /\ [][NextPdf]_vars /\ WF_vars(NextPdf)

\* ------------------------------------------------ runs of parseHTMLRoster
InitHtml ==
  /\ InitRoster
  /\ htmlRun \in {[HtmlIdle EXCEPT !.pc = "parsing", !.doc = d, !.year = y] :
                    d \in HtmlPages, y \in WallYears}
  /\ timeCall = TimeIdle /\ pdfRun = PdfIdle
  /\ InitServices

NextHtml ==
  \/ ParseSection
  \/ ReturnParsed

SpecHtml == InitHtml /\ [][NextHtml]_vars

\* ------------------------------------------------------ runs of detectFlags
InitFlags ==
  /\ InitRoster /\ InitParsers
  /\ flagCall \in {[FlagIdle EXCEPT !.pc = "called", !.ctx = c] : c \in Contexts}
  /\ InitReports /\ speech = SpeechIdle /\ InitDeckIdle

NextFlags == DetectFlags

SpecFlags == InitFlags /\ [][NextFlags]_vars

\* ----------------------------------------- runs of the manager report parsers
InitReportParsers ==
  /\ InitRoster /\ InitParsers /\ flagCall = FlagIdle
  /\ reportCall \in {[ReportIdle EXCEPT !.pc = "called", !.parser = p, !.page = g] :
                       p \in ReportParsers, g \in ReportPages}
  /\ reportData = {} /\ reportSeq = 0 /\ reportLast = ReportAnswer("start", 200, 0)
  /\ speech = SpeechIdle /\ InitDeckIdle

NextReportParsers == CallReportParser

SpecReportParsers == InitReportParsers /\ [][NextReportParsers]_vars

\* ------------------------------------------------ the manager report table
NextReports ==
  \/ \E reportType \in ManagerReportTypes \cup {"roster"}, html \in ReportFiles,
        locId \in {0} \cup Locations, fault \in {"none", "insert"} :
        UploadReport(reportType, html, locId, fault)
  \/ \E id \in 1..MaxClock : DeleteReport(id)

SpecReports == Init /\ [][NextReports]_vars

\* ------------------------------------------------------ the announcements
NextSpeak ==
  \/ \E endpoint \in SpeakEndpoints, text \in {"", "page"} :
        SpeakAnnouncement(endpoint, text)
        /\ UNCHANGED <<rosterVars, parserVars, flagCall, reportVars, deckVars>>
  \/ \E k \in DOMAIN speech.calls : StartAnnouncement(k)
        /\ UNCHANGED <<rosterVars, parserVars, flagCall, reportVars, deckVars>>
  \/ \E k \in DOMAIN speech.calls : SkipAnnouncement(k)
        /\ UNCHANGED <<rosterVars, parserVars, flagCall, reportVars, deckVars>>
  \/ \E k \in DOMAIN speech.calls : PingDone(k)
        /\ UNCHANGED <<rosterVars, parserVars, flagCall, reportVars, deckVars>>
  \/ \E k \in DOMAIN speech.calls, installed \in BOOLEAN : TimerFired(k, installed)
        /\ UNCHANGED <<rosterVars, parserVars, flagCall, reportVars, deckVars>>
  \/ \E k \in DOMAIN speech.calls, code \in {0, 1} : PiperExit(k, code)
        /\ UNCHANGED <<rosterVars, parserVars, flagCall, reportVars, deckVars>>
  \/ \E k \in DOMAIN speech.calls, error \in BOOLEAN : PlayDone(k, error)
        /\ UNCHANGED <<rosterVars, parserVars, flagCall, reportVars, deckVars>>
  \/ \E k \in DOMAIN speech.calls : AnswerSpeak(k)
        /\ UNCHANGED <<rosterVars, parserVars, flagCall, reportVars, deckVars>>

SpecSpeak == Init /\ [][NextSpeak]_vars

\* ------------------------------- the pool deck: manual changes of a roster
\* the roll sheet of today, one swimmer
DeckSheet ==
  <<CHOOSE r \in HtmlRows : r.date = Today /\ r.zone = 1 /\ r.attendance = NULL>>

\* the server after the upload of today's roll sheet into an empty roster
InitDeck ==
  /\ roster = UploadRoster({}, DeckSheet, DefaultLocation, 1)
  /\ activeDate = Today
  /\ exports = {}
  /\ clock = 1
  /\ last = [op |-> "upload_html", loc |-> DefaultLocation, date |-> Today,
             status |-> "ok", doc |-> DeckSheet, into_empty |-> TRUE]
  /\ InitParsers /\ flagCall = FlagIdle /\ InitReports /\ speech = SpeechIdle
  /\ InitDeckIdle

NextDeck ==
  \/ Tick
  \/ \E st \in StartTimes, sn \in Names, z \in {3, 7}, ip \in IPs, code_ok \in BOOLEAN :
        UpdateZoneDeck(st, sn, z, ip, code_ok)
  \/ \E enabled \in BOOLEAN : SetReadOnly(enabled)
  \/ GetReadOnly
  \/ \E st \in StartTimes, sn \in Names : Attendance(st, sn, 1)
        /\ UNCHANGED <<parserVars, serviceVars>>
  \/ \E st \in StartTimes, sn \in Names : UpdateZone(st, sn, 3, "10.0.0.7")
        /\ UNCHANGED <<parserVars, serviceVars>>
  \/ \E st \in StartTimes, sn \in Names : UpdateFlags(st, sn, {"flag_trial"})
        /\ UNCHANGED <<parserVars, serviceVars>>
  \/ \E st \in StartTimes, sn \in Names : AddSwimmer(st, sn, "Lou Day", 2, DefaultLocation)
        /\ UNCHANGED <<parserVars, serviceVars>>
  \/ \E st \in StartTimes, sn \in Names : RemoveAddon(st, sn)
        /\ UNCHANGED <<parserVars, serviceVars>>

SpecDeck == InitDeck /\ [][NextDeck]_vars

\* ================================================================ claims
ImportOps == {"upload_html", "import_today"}

\* the rows of the roster with key k
WithKey(rs, k) == {r \in rs : Key(r) = k}

\* C1: every row that is an add-on before an import (HTML upload or
\* import-today) is still in the roster after it, with every field unchanged.
C1_AddonsUntouched ==
  [][last'.op \in ImportOps =>
       \A r \in roster : r.is_addon = 1 => r \in roster']_vars

\* C2: an HTML upload neither deletes nor modifies a stored row dated before
\* the earliest date of the uploaded document.
C2_BeforeEffectiveDateKept ==
  [][(last'.op = "upload_html" /\ last'.status = "ok") =>
       \A r \in roster : r.date < last'.date => r \in roster']_vars

\* C2 (amended): an HTML upload neither deletes nor modifies a stored row
\* dated before today, the server's calendar day.
C2_BeforeTodayKept ==
  [][last'.op = "upload_html" =>
       \A r \in roster : r.date < Today => r \in roster']_vars

\* an accepted upload whose document holds a past date met a stored past row
C2_Witness ==
  /\ last.op = "upload_html" /\ last.status = "ok"
  /\ \E i \in DOMAIN last.doc : last.doc[i].date < Today
  /\ \E r \in roster : r.date < Today /\ r.updated_at < clock
  /\ \E r \in roster : r.date >= Today /\ r.created_at = clock

\* C3: an import performed for one location leaves every row of another
\* location unchanged.
C3_OtherLocationsUntouched ==
  [][last'.op \in ImportOps \cup {"import_server"} =>
       \A r \in roster : r.location_id # last'.loc => r \in roster']_vars

\* the rows the handler of the step is about to delete
Doomed ==
  CASE last'.op = "upload_html" /\ last'.status # "rejected" ->
         HtmlSuperseded(roster, last'.loc)
    [] last'.op = "import_server" -> ImportDeleted(roster, last'.date, last'.loc)
    [] last'.op \in {"clear_roster", "clear_roster_future", "clear_roster_all"} ->
         IF last'.status = "ok" THEN roster \ roster' ELSE {}
    [] OTHER -> {}

\* C4: whenever a deleting operation other than add-on removal deletes rows,
\* it has written a backup snapshot holding exactly those rows; without the
\* snapshot no row is deleted.
C4_SnapshotBeforeDelete ==
  [][(last'.status # "insert_failed" /\ Doomed # {} /\ ~(Doomed \subseteq roster')) =>
       \E f \in exports' \ exports : f.roster = Doomed]_vars

\* C5: an import whose insert fails leaves the roster as it was before the
\* import began.
C5_ImportAtomic ==
  [][(last'.op \in {"upload_html", "import_server"} /\ last'.status = "insert_failed")
       => roster' = roster]_vars

\* the document holds the key k, and no row of it with that key carries an
\* absence marker
NoAbsenceMarker(doc, k) ==
  /\ \E i \in DOMAIN doc : Key(doc[i]) = k
  /\ \A i \in DOMAIN doc :
       Key(doc[i]) = k => doc[i].attendance = NULL /\ doc[i].attendance_auto_absent = 0

\* C6: attendance set through /api/attendance and a zone overridden through
\* /api/update-zone survive an HTML upload that holds the same key without an
\* absence marker.
C6_ManualStateSurvivesUpload ==
  [][(last'.op = "upload_html" /\ last'.status = "ok") =>
       \A r \in roster :
         (/\ r.is_addon = 0 /\ r.date >= Today
          /\ (r.attendance_at # NULL \/ r.zone_overridden = 1)
          /\ NoAbsenceMarker(last'.doc, Key(r)))
         => \E n \in WithKey(roster', Key(r)) :
              /\ r.attendance_at # NULL =>
                   n.attendance = r.attendance /\ n.attendance_at = r.attendance_at
              /\ r.zone_overridden = 1 =>
                   /\ n.zone_overridden = 1 /\ n.zone = r.zone
                   /\ n.zone_override_at = r.zone_override_at
                   /\ n.zone_override_by = r.zone_override_by]_vars

\* C7: import-today leaves attendance, attendance_at, is_addon and the zone
\* override columns of an existing row unchanged, and the zone of a row whose
\* zone was overridden.
C7_PdfImportKeepsManualState ==
  [][(last'.op = "import_today" /\ last'.status = "ok") =>
       \A r \in roster :
         \E n \in WithKey(roster', Key(r)) :
           /\ n.attendance = r.attendance /\ n.attendance_at = r.attendance_at
           /\ n.is_addon = r.is_addon
           /\ n.zone_overridden = r.zone_overridden
           /\ n.zone_override_at = r.zone_override_at
           /\ n.zone_override_by = r.zone_override_by
           /\ r.zone_overridden = 1 => n.zone = r.zone]_vars

\* a row without its timestamps
NoTs(r) == [r EXCEPT !.created_at = NULL, !.updated_at = NULL]

\* the roster after importing the document of the last request once more
ImportedAgain ==
  IF last.op = "upload_html"
  THEN UploadRoster(roster, last.doc, last.loc, nowISO)
  ELSE ImportTodayRoster(roster, last.doc, activeOrToday, nowISO)

\* C8: after importing a document into an empty roster, importing it again
\* gives the same keys and the same non-timestamp fields, and deletes no row
\* that it does not create again.
C8_ImportIdempotent ==
  (last.op \in ImportOps /\ last.status = "ok" /\ last.into_empty) =>
     /\ {NoTs(r) : r \in ImportedAgain} = {NoTs(r) : r \in roster}
     /\ \A r \in roster : WithKey(ImportedAgain, Key(r)) # {}

\* a two-row document was uploaded into an empty roster
C8_Witness ==
  /\ last.op = "upload_html" /\ last.status = "ok" /\ last.into_empty
  /\ Cardinality(roster) = 2

\* C9: restoring an auto-export snapshot through import-server brings every
\* snapshotted row back under its own key with its attendance, zone and flags.
C9_SnapshotRestores ==
  (/\ last.op = "import_server" /\ last.status = "ok"
   /\ \E f \in exports : /\ f.kind = "auto_export" /\ f.loc = last.loc
                         /\ f.roster = Range(last.doc))
  => \A s \in Range(last.doc) :
       \E r \in WithKey(roster, Key(s)) :
         r.attendance = s.attendance /\ r.zone = s.zone /\ r.flags = s.flags

\* the keys the request of the step upserts
UpsertedKeys ==
  CASE last'.op = "upload_html" ->
         {Key(r) : r \in Range(HtmlRowsToInsert(last'.doc))}
    [] last'.op \in {"import_today", "import_server", "add_swimmer"} ->
         {<<last'.date, r.start_time, r.swimmer_name>> : r \in Range(last'.doc)}
    [] OTHER -> {}

KeyUnique == \A a, b \in roster : Key(a) = Key(b) => a = b

ParsedKey(r) == <<r.start_time, r.swimmer_name>>

\* C11: no two rows emitted by one run of parseRosterFromLines have the same
\* start_time and swimmer_name (the date of all of them is the import date);
\* stated for two rows of classes with different instructors.
C11_ParsedKeysUnique ==
  \A a, b \in DOMAIN pdfRun.rows :
    (a # b /\ pdfRun.rows[a].instructor_name # pdfRun.rows[b].instructor_name)
      => ParsedKey(pdfRun.rows[a]) # ParsedKey(pdfRun.rows[b])

\* C12: a rejected import (import-today without a readable PDF, an HTML
\* upload without swimmers or without a row dated today or later) leaves the
\* roster and the persisted active date as they were.
C12_RejectedImportChangesNothing ==
  [][(last'.op \in ImportOps /\ last'.status = "rejected") =>
       roster' = roster /\ activeDate' = activeDate]_vars

\* an upload of past rows only was rejected while the roster held rows and
\* another date was active
C12_Witness ==
  /\ last.op = "upload_html" /\ last.status = "rejected"
  /\ last.doc # <<>> /\ roster # {}
  /\ activeDate # NULL /\ activeDate # HtmlActiveDate(last.doc)

\* C13: whatever pdftotext does, the import-today request is answered in the
\* end, and when pdftotext did not exit with 0 the answer is the PDF-unreadable
\* failure.
C13_RequestAnswered ==
  /\ <>(pdfRun.pc = "answered")
  /\ [](/\ pdfRun.pc = "answered" /\ pdfRun.file = "present"
        /\ pdfRun.proc # "exit_zero"
        => pdfRun.response = PdfUnreadable)

\* C14: after an accepted HTML upload the persisted active date is a date
\* for which the upload wrote at least one roster row.
C14_ActiveDateImported ==
  (last.op = "upload_html" /\ last.status = "ok") =>
     \E r \in roster : r.date = activeDate /\ r.updated_at = clock

\* the valid times: H(:MM)? am|pm with H in 1..12 and MM in 00..59
ValidTimes ==
  [h : 1..12, m : -1..59, gap : Blanks, ap : {<<"a", "m">>, <<"p", "m">>}]

\* how a valid time is written, and the 24-hour time it denotes
TimeText(v) ==
  NumStr(v.h) \o (IF v.m = -1 THEN <<>> ELSE <<":">> \o padStart2(NumStr(v.m)))
    \o v.gap \o v.ap

TimeValue(v) ==
  LET hh == IF v.ap = <<"p", "m">> THEN (IF v.h = 12 THEN 12 ELSE v.h + 12)
            ELSE (IF v.h = 12 THEN 0 ELSE v.h)
      mm == IF v.m = -1 THEN 0 ELSE v.m
  IN  padStart2(NumStr(hh)) \o <<":">> \o padStart2(NumStr(mm))

\* C16: normalizeTimeTo24h returns the 24-hour "HH:MM" of every valid time
\* and null for every other argument; it never throws.
C16_TimeOrNull ==
  timeCall.pc = "returned" =>
    LET raw == timeCall.raw
        text == IF raw.type = "string" THEN toLowerCase(trim(raw.chars)) ELSE <<>>
        forms == {v \in ValidTimes : raw.type = "string" /\ TimeText(v) = text}
    IN  IF forms # {}
        THEN \A v \in forms : timeCall.result = Str(TimeValue(v))
        ELSE timeCall.result = JsNull

\* the last "Schedule:" line before line i, 0 when there is none
LastSchedule(lines, i) ==
  LET S == {k \in 1..(i - 1) : IsSchedule(lines[k])}
  IN  IF S = {} THEN 0 ELSE CHOOSE k \in S : \A j \in S : j <= k

\* C17: a step of the line state machine emits at most one row, and the row
\* carries the start time, instructor and zone of the last "Schedule:" line
\* before it, all three of them extracted (not null).
C17_RowsCarryContext ==
  [][pdfRun'.rows # pdfRun.rows =>
       LET k == LastSchedule(pdfRun.lines, pdfRun.i)
           row == pdfRun'.rows[Len(pdfRun'.rows)]
       IN  /\ pdfRun'.rows = Append(pdfRun.rows, row)
           /\ k # 0
           /\ row.start_time = ScheduleTime(pdfRun.lines[k])
           /\ row.start_time.type = "string"
           /\ row.instructor_name = ScheduleInstructor(pdfRun.lines[k])
           /\ row.instructor_name # <<>>
           /\ row.zone = ScheduleZone(pdfRun.lines[k])
           /\ row.zone \in 1..4]_vars

\* a swimmer line under a Schedule line without a zone, which itself follows
\* a complete class with a swimmer
C17_Witness ==
  /\ pdfRun.pc = "answered" /\ Len(pdfRun.lines) = 4
  /\ pdfRun.lines[1] = SchedA /\ IsNumberedLine(pdfRun.lines[2])
  /\ pdfRun.lines[3] = SchedNoZone /\ IsNumberedLine(pdfRun.lines[4])
  /\ Len(pdfRun.rows) = 1

\* the swimmer_name and age_text of the rows
NameAndAge(rows) ==
  [k \in DOMAIN rows |->
     [swimmer_name |-> rows[k].swimmer_name, age_text |-> rows[k].age_text]]

\* one row for each entry of the class, in order
ExpectedRows(c) ==
  [k \in DOMAIN c.entries |->
     [swimmer_name |-> c.entries[k].who.name,
      age_text |-> IF c.entries[k].age = "" THEN <<>> ELSE <<"5y">>]]

ExampleLines == <<SchedA, <<"1", "Doe,", "John">>, <<"5y">>>>

ExampleRows ==
  <<[start_time |-> Str(<<"0", "9", ":", "0", "0">>),
     swimmer_name |-> <<"John", "Doe">>,
     instructor_name |-> <<"Jane", "Smith">>,
     zone |-> 2, program |-> <<"GROUP">>, age_text |-> <<"5y">>, flags |-> {}]>>

\* C18: a class made of swimmer entries in the three line-wrap shapes, each
\* with or without an age line, is parsed into exactly one row for each entry,
\* with the swimmer's "First Last" name and the age of its age line; the
\* example of the specification gives its one row.
C18_OneRowPerEntry ==
  (pdfRun.pc = "answered" /\ pdfRun.response = Imported) =>
     /\ \A c \in Classes :
          c.lines = pdfRun.lines => NameAndAge(pdfRun.rows) = ExpectedRows(c)
     /\ pdfRun.lines = ExampleLines => pdfRun.rows = ExampleRows

\* a class of a two-line entry with an age line and another two-line entry
C18_Witness ==
  /\ pdfRun.pc = "answered" /\ Len(pdfRun.rows) = 2
  /\ \E c \in Classes :
       /\ c.lines = pdfRun.lines /\ Len(c.entries) = 2
       /\ c.entries[1].shape = "a" /\ c.entries[1].age = "5Y"
       /\ c.entries[2].shape = "b"

\* C15: the rows parseHTMLRoster returns do not depend on the wall clock: a
\* run returns what a run in any other year returns for the same document.
C15_ParseClockIndependent ==
  htmlRun.pc = "done" =>
    \A y \in WallYears : parseHTMLRoster(htmlRun.doc, y) = htmlRun.swimmers

\* the entries of the instructor list of a section, as written
ListEntries(sec) ==
  IF sec.cell.kind = "none" THEN <<>>
  ELSE SelectSeq(sec.cell.items, LAMBDA t : t # <<>>)

\* the person an entry names
PersonOf(t) == lastFirstToFirstLast(StripStars(StripSub(t)))

\* the first unmarked entry of the list, <<>> when there is none
FirstUnmarked(sec) ==
  LET u == SelectSeq(ListEntries(sec), LAMBDA t : ~HasMark(t))
  IN  IF u = <<>> THEN <<>> ELSE PersonOf(u[1])

\* a page of one section that names no instructor in its header
OneSection == htmlRun.pc = "done" /\ Len(htmlRun.doc) = 1 /\ htmlRun.doc[1].header = <<>>

\* C19: when the instructor list of a section is one entry marked as
\* substitute, every row of the section has that person as instructor_name,
\* is_substitute = 0 and no substitute_instructor and original_instructor
\* (stated for sections whose header names no instructor).
C19_LoneSubstituteIsInstructor ==
  (/\ OneSection
   /\ Len(ListEntries(htmlRun.doc[1])) = 1
   /\ HasMark(ListEntries(htmlRun.doc[1])[1]))
  => \A k \in DOMAIN htmlRun.swimmers :
       LET r == htmlRun.swimmers[k]
       IN  /\ r.instructor_name = PersonOf(ListEntries(htmlRun.doc[1])[1])
           /\ r.is_substitute = 0
           /\ r.substitute_instructor = <<>>
           /\ r.original_instructor = <<>>

\* an instructor list as the roll sheets have it: entries that name
\* different persons, at most one of them marked as substitute
OrdinaryList(sec) ==
  LET es == ListEntries(sec)
  IN  /\ \A i, j \in DOMAIN es : i # j => PersonOf(es[i]) # PersonOf(es[j])
      /\ Cardinality({i \in DOMAIN es : HasMark(es[i])}) <= 1

\* the list names a regular instructor and a substitute for him
SubstituteListed(sec) ==
  /\ \E i \in DOMAIN ListEntries(sec) : HasMark(ListEntries(sec)[i])
  /\ \E i \in DOMAIN ListEntries(sec) : ~HasMark(ListEntries(sec)[i])

\* C20: every row has a consistent substitute triple: is_substitute = 1
\* exactly when the list names a substitute next to a regular instructor, and
\* then instructor_name is the substitute and original_instructor is the first
\* unmarked entry of the list; otherwise original_instructor and
\* substitute_instructor are null and instructor_name is the first unmarked
\* entry (stated for ordinary lists in sections whose header names no
\* instructor).
C20_SubstituteTripleConsistent ==
  (OneSection /\ OrdinaryList(htmlRun.doc[1])) =>
    \A k \in DOMAIN htmlRun.swimmers :
      LET r == htmlRun.swimmers[k]
          regular == FirstUnmarked(htmlRun.doc[1])
      IN  /\ r.is_substitute = 1 <=> SubstituteListed(htmlRun.doc[1])
          /\ r.is_substitute = 1 =>
               /\ r.instructor_name = r.substitute_instructor
               /\ r.original_instructor # <<>>
               /\ r.original_instructor = regular
          /\ r.is_substitute # 1 =>
               /\ r.original_instructor = <<>>
               /\ r.substitute_instructor = <<>>
               /\ regular # <<>> => r.instructor_name = regular

\* ------------------------------------------------------------------- C21
\* C21: after any sequence of operations every stored roster row has zone
\* null or an integer in 1..4; an HTML section whose Zone field reads a number
\* outside 1..4 never results in a stored zone outside 1..4.
C21_ZoneInRange == \A r \in roster : r.zone = NULL \/ r.zone \in 1..4

\* ------------------------------------------------------------------- C22
\* C22: whenever a manager report parser returns zero instructors, rows or
\* entries, the warnings it returns are not empty.  (No statement of the
\* parsers can throw on a string, so every call returns.)
C22_EmptyResultWarns ==
  reportCall.pc = "returned" /\ reportCall.result.rows = <<>>
    => reportCall.result.warnings # <<>>

\* ------------------------------------------------------------------- C23
\* the step is a successful upload: only that takes a new id
UploadedReport == reportSeq' # reportSeq

\* C23: a successful upload adds exactly one record, with archived = 0, and
\* changes no earlier record except that an aged_accounts upload for a
\* location sets archived = 1 on that location's earlier aged_accounts
\* records, after which exactly one of them, the new one, is not archived.
C23_HistoryAppendOnly ==
  [][UploadedReport =>
       LET new == {n \in reportData' : \A r \in reportData : r.id # n.id}
       IN  /\ Cardinality(new) = 1
           /\ Cardinality(reportData') = Cardinality(reportData) + 1
           /\ \A n \in new :
                /\ n.archived = 0
                /\ \A r \in reportData :
                     \E s \in reportData' :
                       /\ s.id = r.id
                       /\ [s EXCEPT !.archived = 0] = [r EXCEPT !.archived = 0]
                       /\ s.archived # r.archived =>
                            /\ n.report_type = "aged_accounts"
                            /\ r.report_type = "aged_accounts"
                            /\ r.location_id = n.location_id
                            /\ s.archived = 1
                /\ n.report_type = "aged_accounts" =>
                     {s \in reportData' : /\ s.location_id = n.location_id
                                          /\ s.report_type = "aged_accounts"
                                          /\ s.archived = 0} = {n}]_vars

\* an aged_accounts upload has archived its location's earlier record while
\* the earlier aged_accounts record of the other location stays current
C23_Witness ==
  \E a, b, c \in reportData :
    /\ a.report_type = "aged_accounts" /\ b.report_type = "aged_accounts"
    /\ c.report_type = "aged_accounts"
    /\ a.location_id = b.location_id /\ a.id < b.id
    /\ a.archived = 1 /\ b.archived = 0
    /\ c.location_id # b.location_id /\ c.id < b.id /\ c.archived = 0

\* ------------------------------------------------------------------- C24
\* C24: no two stored manager reports have the same location, report type,
\* date and content: the upload of a dated report that is already stored adds
\* no record.
C24_DuplicateUploadRejected ==
  \A a, b \in reportData :
    /\ a.location_id = b.location_id /\ a.report_type = b.report_type
    /\ a.report_date = b.report_date /\ a.report_date # NoText
    /\ a.data = b.data /\ a.data # <<>>
    => a.id = b.id

\* ------------------------------------------------------------------- C25
\* a token stands in the context as a whole word: it is not part of a longer
\* run of letters and digits
ContainsToken(ctx, flag) ==
  \E tok \in FlagTokens(flag) : TokenIn(toUpperCase(ctx), tok, LettersAndDigits)

\* C25: each flag is 1 exactly when the upper-cased context contains a token
\* of that flag's own set as a whole word (or "$" for flag_owes, a star glyph
\* for flag_new), whatever the other flags are; the context
\* "Jane Smith MAKEUP $50 due" gives flag_makeup and flag_owes only.
C25_FlagsByWholeWords ==
  flagCall.pc = "returned" =>
    /\ \A flag \in AllFlags :
         flag \in flagCall.flags <=> ContainsToken(flagCall.ctx, flag)
    /\ flagCall.ctx = ExampleContext => flagCall.flags = {"flag_makeup", "flag_owes"}

\* ------------------------------------------------------------------- C26
\* the calls whose announcement has begun
Begun(calls) ==
  {k \in DOMAIN calls : calls[k].phase \in Running \cup {"fulfilled", "rejected"}}

\* C26: at most one announcement is in its ping, synthesis or playback phase;
\* an announcement begins only when every announcement requested before it
\* has finished; a caller is answered with success only after its own
\* announcement has finished playing.
C26_AnnouncementsSerialized ==
  LET calls == speech.calls
  IN  /\ Cardinality({k \in DOMAIN calls : calls[k].phase \in Running}) <= 1
      /\ \A j, k \in Chained(calls) :
           j < k /\ k \in Begun(calls) => calls[j].phase = "fulfilled"
      /\ \A k \in DOMAIN calls : calls[k].answer = 200 => calls[k].phase = "fulfilled"

\* three concurrent calls: the first has played, the second is playing, the
\* third waits
C26_Witness ==
  /\ Len(speech.calls) = 3
  /\ speech.calls[1].phase = "fulfilled"
  /\ speech.calls[2].phase = "play"
  /\ speech.calls[3].phase = "queued"

\* ------------------------------------------------------------------- C27
\* C27: an announcement requested after another one has failed is still
\* attempted: its callback runs.
C27_FailureDoesNotBlock ==
  \A k \in DOMAIN speech.calls :
    speech.calls[k].after_failure => speech.calls[k].phase # "skipped"

\* ------------------------------------------------------------------- C28
\* the step is a deck-mode update-zone request, and the request
DeckStep == last'.op = "update_zone_deck" /\ wall' = wall
DeckRequest == last'.doc[1]

\* the address is locked now
LockedNow(ip) == wall < ipAuthState[ip].lockedUntil

\* what a failed manager-code attempt makes of the state of its address
AfterFailedAttempt(st) ==
  IF st.fails = MAX_FAILS - 1
  THEN [fails |-> 0, lockedUntil |-> wall + LOCKOUT_MS]
  ELSE [st EXCEPT !.fails = @ + 1]

\* C28 as the program has it: the third failed attempt in a row locks the
\* address for two minutes; while it is locked every request with a zone in
\* 1..4 gets the locked error and changes nothing, with the right code too; a
\* request with another zone is refused as invalid before the lock is looked
\* at; a successful attempt resets the count; the count stays in 0..2; no
\* request touches the state of another address.
C28_Lockout ==
  /\ [](\A ip \in IPs : ipAuthState[ip].fails \in 0..(MAX_FAILS - 1))
  /\ [][~DeckStep => ipAuthState' = ipAuthState]_vars
  /\ [][DeckStep =>
          LET ip == DeckRequest.ip
              valid == DeckRequest.zone \in 1..4
          IN  /\ \A other \in IPs \ {ip} : ipAuthState'[other] = ipAuthState[other]
              /\ ~valid =>
                   /\ last'.status = "rejected"
                   /\ roster' = roster /\ ipAuthState' = ipAuthState
              /\ valid /\ LockedNow(ip) =>
                   /\ last'.status = "locked"
                   /\ roster' = roster /\ ipAuthState' = ipAuthState
              /\ valid /\ ~LockedNow(ip) /\ ~DeckRequest.code_ok =>
                   /\ roster' = roster
                   /\ ipAuthState'[ip] = AfterFailedAttempt(ipAuthState[ip])
                   /\ last'.status = "now_locked" <=> ipAuthState[ip].fails = MAX_FAILS - 1
              /\ valid /\ ~LockedNow(ip) /\ DeckRequest.code_ok =>
                   /\ last'.status = "ok"
                   /\ ipAuthState'[ip].fails = 0]_vars

\* C28 as stated: while an address is locked, every deck-mode update-zone
\* request from it is rejected with the locked error and leaves the roster
\* unchanged.
C28_LockedError ==
  [][DeckStep /\ LockedNow(DeckRequest.ip) =>
       last'.status = "locked" /\ roster' = roster]_vars

\* a request with the right code was refused with the locked error while the
\* other address, with failed attempts of its own, is not locked
C28_Witness ==
  /\ last.op = "update_zone_deck" /\ last.status = "locked"
  /\ last.doc[1].code_ok
  /\ LockedNow(last.doc[1].ip)
  /\ \E other \in IPs \ {last.doc[1].ip} :
       ~LockedNow(other) /\ ipAuthState[other].fails = MAX_FAILS - 1

\* ------------------------------------------------------------------- C29
\* C29: while read-only mode is enabled no request changes the roster.
C29_ReadOnlyFreezesRoster == [][readOnlyMode => roster' = roster]_vars

\* ------------------------------------------------------------------- C30
\* the row was created by the import of the roll sheet
CreatedByImport(r) ==
  \E i \in UploadRoster({}, DeckSheet, DefaultLocation, 1) :
    Key(i) = Key(r) /\ i.created_at = r.created_at

\* C30: remove-addon never deletes a row that an import created, whatever
\* add-swimmer, attendance, update-zone and update-flags requests came
\* between the import and the removal.
C30_ImportedRowsNotRemovable ==
  [][last'.op = "remove_addon" /\ last'.status = "ok" =>
       \A r \in roster \ roster' : ~CreatedByImport(r)]_vars

====
